---------------------------- MODULE Spec2Model ----------------------------
(***************************************************************************)
(* Model of the cross-monitor window relocation engine of                  *)
(* desktop-visual-timer (src/src/window_manager.py) and of its timer       *)
(* engine (src/src/timer_engine.py).                                       *)
(*                                                                         *)
(* Ten specifications share the module.  SpecGeom drives the geometry      *)
(* mapper calculate_target_position over source rectangles and monitor     *)
(* pairs, SpecExclude the exclusion policy over windows and monitor lists, *)
(* SpecNext the monitor cycling over enumerated lists, and Spec runs       *)
(* move_active_window_to_next_monitor on a desktop of displays and windows *)
(* whose windowing calls may take effect or not and report success,        *)
(* failure or raise.  SpecHotkey drives validate_hotkey (settings_manager) *)
(* and _parse_hotkey_for_pynput over hotkey texts, and SpecLife the        *)
(* lifecycle: start, stop, reload_config and get_monitors called from the  *)
(* application's thread, and key presses served on the listeners' threads. *)
(* SpecDpi drives the DPI cascade _get_dpi_for_monitor over the answers of *)
(* the three strategies, SpecDegenerate the geometry step of the pipeline  *)
(* over work areas of no width or height, SpecRace start() on the          *)
(* background thread against stop() on another, statement by statement,    *)
(* and SpecTimer the TimerEngine: scheduler threads, stop, and countdown   *)
(* threads against cancel_countdown_timer.                                 *)
(*                                                                         *)
(* Rectangles are 4-tuples <<x, y, right, bottom>>, as the windowing API   *)
(* reports them (1-based in TLA+: r[1] = x ... r[4] = bottom).  A monitor  *)
(* is a record [index, rect, work_area, dpi] with dpi = <<dpi_x, dpi_y>>;  *)
(* its scale_factor is dpi / 96 and is kept as that fraction.              *)
(*                                                                         *)
(* Python floats: every DPI of the model is a multiple of 24, so a scale   *)
(* factor is k/4 and products and quotients of integers with it are exact  *)
(* in binary floating point.  A ratio a/b is rounded, so int(m * (a/b))    *)
(* may fall one short of the exact product when that product is a whole    *)
(* number and a/b is no dyadic fraction (245/1920 * 1920 gives 244 in the  *)
(* program).  FloatInt returns both outcomes in that case.                 *)
(***************************************************************************)
EXTENDS Integers, Sequences, FiniteSets, TLC

VARIABLES
    \* --- geometry mapper driver (calculate_target_position) ---
    g_pc,               \* "idle" | "input" | "mapped" | "back"
    g_window_rect,      \* the source window rectangle
    g_current_monitor,  \* monitor the window is on
    g_target_monitor,   \* monitor the window goes to
    g_target_rect,      \* result of mapping current -> target, <<>> before
    g_back_rect,        \* result of mapping the result target -> current
    \* --- exclusion policy driver (_should_exclude_window) ---
    e_pc,               \* "idle" | "input" | "judged" | "decided"
    e_window_info,      \* the captured window
    e_monitors,         \* what get_monitors() returns
    e_exclude_fullscreen, \* the exclude_fullscreen setting
    e_fullscreen,       \* result of _is_fullscreen_window, "none" before
    e_excluded,         \* result of _should_exclude_window, "none" before
    \* --- monitor cycling driver (_get_next_monitor) ---
    n_pc,               \* "idle" | "cycling" | "lost"
    n_monitors,         \* what get_monitors() returned
    n_start,            \* the monitor the cycle started on
    n_current,          \* the monitor reached so far
    n_steps,            \* number of _get_next_monitor calls made
    \* --- the desktop the program runs on ---
    attached_displays,  \* attached displays, in enumeration order
    windows,            \* hwnd -> state of the top-level window
    foreground,         \* hwnd of the foreground window, 0 for none
    now,                \* time.time(), in seconds
    \* --- WindowManager fields ---
    monitors_cache,     \* self.monitors_cache
    cache_timestamp,    \* self.cache_timestamp
    setting_exclude_fullscreen, \* the exclude_fullscreen setting
    \* --- one run of move_active_window_to_next_monitor ---
    pc,                 \* position in the run, "idle" between runs
    presses,            \* number of runs started
    m_window_info,      \* what get_current_window returned
    m_excluded,         \* what _should_exclude_window returned
    m_judged_on,        \* what get_monitors returned to _is_fullscreen_window
    m_monitors,         \* what get_monitors returned to the run
    m_current_monitor,  \* monitor found for the window
    m_next_monitor,     \* monitor chosen as destination
    m_target,           \* <<new_x, new_y, new_width, new_height>>
    m_hwnd,             \* handle the placement acts on
    calls,              \* mutating calls issued by the run, in order
    returned_at,        \* the return statement that ended the run
    result,             \* value returned by the run
    \* --- hotkey validation driver (validate_hotkey) ---
    h_pc,               \* "idle" | "input" | "validated" | "parsed"
    h_text,             \* the hotkey string, a sequence of pieces
    h_validation,       \* what validate_hotkey returned, None before
    h_combo,            \* what _parse_hotkey_for_pynput returned, <<>> before
    \* --- lifecycle: start, stop, reload_config and the hotkey listeners ---
    is_running,         \* self.is_running
    hotkey_listener,    \* self.hotkey_listener: a listener slot, 0 for None
    listeners,          \* slot -> [state, run] of a GlobalHotKeys listener
    setting_hotkey,     \* the hotkey setting, a sequence of pieces
    setting_enabled,    \* the enabled setting
    api_pc,             \* "idle" while the lifecycle is driven, "off" otherwise
    presses_left,       \* key presses still to come
    returned,           \* the call that returned in the last step, if any
    last_enumeration,   \* the last enumeration that was cached
    \* --- DPI detection driver (_get_dpi_for_monitor) ---
    k_pc,               \* "idle" | "input" | "detected" | "built"
    k_host,             \* what the host's DPI calls answer for the monitor
    k_dpi,              \* what _get_dpi_for_monitor returned, <<>> before
    k_scale_factor,     \* scale_factor of the monitor entry, <<>> before
    \* --- start() on the application's background thread against stop() ---
    start_pc,           \* position of the thread in start(), "off" when not driven
    start_value,        \* what start() returned, "none" before
    stop_pc,            \* position of the other thread in stop()
    \* --- TimerEngine ---
    engine_running,     \* self.running
    scheduler_threads,  \* position of each thread created by TimerEngine.start
    countdown_timers,   \* keys of self.countdown_timers
    countdown_threads,  \* position and remaining seconds of each _run_countdown
    callback_calls,     \* per timer, how often trigger_callback was invoked for it
    cancelled           \* per timer, whether cancel_countdown_timer removed it

geomVars == <<g_pc, g_window_rect, g_current_monitor, g_target_monitor, g_target_rect, g_back_rect>>

exclVars == <<e_pc, e_window_info, e_monitors, e_exclude_fullscreen, e_fullscreen, e_excluded>>

nextVars == <<n_pc, n_monitors, n_start, n_current, n_steps>>

deskVars == <<attached_displays, windows, foreground, now>>

fieldVars == <<monitors_cache, cache_timestamp, setting_exclude_fullscreen>>

runVars == <<pc, presses, m_window_info, m_excluded, m_judged_on, m_monitors, m_current_monitor, m_next_monitor,
             m_target, m_hwnd, calls, returned_at, result>>

pipeVars == <<deskVars, fieldVars, runVars>>

hotkeyVars == <<h_pc, h_text, h_validation, h_combo>>

lifeVars == <<is_running, hotkey_listener, listeners, setting_hotkey, setting_enabled, api_pc,
              presses_left, returned, last_enumeration>>

dpiVars == <<k_pc, k_host, k_dpi, k_scale_factor>>

\* the drivers added after the lifecycle
raceVars == <<start_pc, start_value, stop_pc>>

timerVars == <<engine_running, scheduler_threads, countdown_timers,
               countdown_threads, callback_calls, cancelled>>

restVars == <<dpiVars, raceVars, timerVars>>

vars == <<geomVars, exclVars, nextVars, pipeVars, hotkeyVars, lifeVars, restVars>>

\* Python's None, for a monitor or a window that was not found
None == [index |-> -1]

\* Each driver rests in its idle state while another specification runs.
GeomIdle ==
    /\ g_pc = "idle"
    /\ g_window_rect = <<>>
    /\ g_current_monitor = None
    /\ g_target_monitor = None
    /\ g_target_rect = <<>>
    /\ g_back_rect = <<>>

ExclIdle ==
    /\ e_pc = "idle"
    /\ e_window_info = None
    /\ e_monitors = <<>>
    /\ e_exclude_fullscreen = TRUE
    /\ e_fullscreen = FALSE
    /\ e_excluded = FALSE

NextIdle ==
    /\ n_pc = "idle"
    /\ n_monitors = <<>>
    /\ n_start = None
    /\ n_current = None
    /\ n_steps = 0

\* _is_fullscreen_window has not asked for the monitors
NotRead == [read |-> FALSE, value |-> <<>>]

\* the locals of a run before it starts
RunReset ==
    /\ m_window_info = None
    /\ m_excluded = FALSE
    /\ m_judged_on = NotRead
    /\ m_monitors = <<>>
    /\ m_current_monitor = None
    /\ m_next_monitor = None
    /\ m_target = <<>>
    /\ m_hwnd = 0
    /\ calls = <<>>
    /\ returned_at = "none"
    /\ result = FALSE

PipeIdle ==
    /\ attached_displays = <<>>
    /\ windows = <<>>
    /\ foreground = 0
    /\ now = 0
    /\ monitors_cache = <<>>
    /\ cache_timestamp = 0
    /\ setting_exclude_fullscreen = TRUE
    /\ pc = "off"
    /\ presses = 0
    /\ RunReset

HotkeyIdle ==
    /\ h_pc = "idle"
    /\ h_text = <<>>
    /\ h_validation = None
    /\ h_combo = <<>>

\* no call
NoOp == [name |-> "none"]

LifeIdle ==
    /\ is_running = FALSE
    /\ hotkey_listener = 0
    /\ listeners = <<>>
    /\ setting_hotkey = <<>>
    /\ setting_enabled = TRUE
    /\ api_pc = "off"
    /\ presses_left = 0
    /\ returned = NoOp
    /\ last_enumeration = NoOp

DpiIdle ==
    /\ k_pc = "idle"
    /\ k_host = None
    /\ k_dpi = <<>>
    /\ k_scale_factor = <<>>

RaceIdle ==
    /\ start_pc = "off"
    /\ start_value = "none"
    /\ stop_pc = "off"

MaxLoops == 2     \* scheduler threads TimerEngine.start may create
MaxTimers == 1    \* countdown timers started
MaxMinutes == 1   \* longest countdown, in minutes

Loops == 1..MaxLoops
Timers == 1..MaxTimers

\* a countdown thread that does not exist
NoCountdown == [pc |-> "none", remaining |-> 0, total_seconds |-> 0]

\* TimerEngine.__init__
TimerIdle ==
    /\ engine_running = FALSE
    /\ scheduler_threads = [l \in Loops |-> "none"]
    /\ countdown_timers = {}
    /\ countdown_threads = [t \in Timers |-> NoCountdown]
    /\ callback_calls = [t \in Timers |-> 0]
    /\ cancelled = [t \in Timers |-> FALSE]

RestIdle == DpiIdle /\ RaceIdle /\ TimerIdle

---------------------------------------------------------------------------
(* Program constants *)

BaseDpi == 96          \* 96 DPI is 100% scaling
FallbackWidth == 400   \* fallback / minimum reasonable width
FallbackHeight == 300  \* fallback / minimum reasonable height
FitMargin == 40        \* margin left when the size exceeds the work area
EdgeInset == 10        \* inset of the position clamp

---------------------------------------------------------------------------
(* Arithmetic helpers *)

Max(a, b) == IF a >= b THEN a ELSE b

Min(a, b) == IF a <= b THEN a ELSE b

Abs(a) == IF a >= 0 THEN a ELSE -a

\* Python int() of the exact rational n/d (d > 0): truncation toward zero.
Trunc(n, d) == IF n >= 0 THEN n \div d ELSE -((-n) \div d)

RECURSIVE GCD(_, _)
GCD(a, b) == IF b = 0 THEN a ELSE GCD(b, a % b)

RECURSIVE IsPow2(_)
IsPow2(k) == IF k <= 1 THEN k = 1 ELSE (k % 2 = 0 /\ IsPow2(k \div 2))

\* A ratio is a pair <<n, d>> in lowest terms with d > 0: the exact value of a
\* float quotient n / d (d # 0).
Ratio(n, d) ==
    LET g == GCD(Abs(n), Abs(d))
    IN  IF d > 0 THEN <<n \div g, d \div g>> ELSE <<(-n) \div g, (-d) \div g>>

\* (r * a) / b for a ratio r and integers a, b (b # 0)
RatioMul(r, a, b) ==
    LET p == Ratio(a, b)
        g1 == GCD(Abs(r[1]), p[2])
        g2 == GCD(Abs(p[1]), r[2])
    IN  <<(r[1] \div g1) * (p[1] \div g2), (r[2] \div g2) * (p[2] \div g1)>>

\* Whether the float holds the ratio exactly: its denominator is a power of 2.
IsDyadic(r) == IsPow2(r[2])

\* int(m * ratio) computed in floats: the exact truncation, and one closer to
\* zero when the exact product is a nonzero whole number the rounded ratio
\* may miss.
FloatInt(m, r) ==
    LET n == m * r[1]
        t == Trunc(n, r[2])
    IN  IF n % r[2] = 0 /\ n # 0 /\ ~IsDyadic(r)
        THEN {t, IF t > 0 THEN t - 1 ELSE t + 1}
        ELSE {t}

RatioGT(r, n, d) == r[1] * d > n * r[2]    \* r > n/d

RatioLT(r, n, d) == r[1] * d < n * r[2]    \* r < n/d

\* min(r, 1.0)
CapRatio(r) == IF r[1] > r[2] THEN <<1, 1>> ELSE r

---------------------------------------------------------------------------
(* Geometry Mapper: WindowManager.calculate_target_position *)

\* Lines 570-593 and 617-622: the size after the sanity fallback, the
\* implausible-ratio cap and floor, and the fit to the target work area.
\* phys is int(target_physical * ratio), capped is int(target * min(ratio, 1.0)).
ClampSize(phys, capped, bad, big, small, original, target, fallback) ==
    LET scaled0 == phys
        scaled1 == IF bad THEN Max(fallback, Min(original, target \div 2)) ELSE scaled0
        scaled2 == IF big THEN capped ELSE scaled1
        scaled3 == IF small THEN Max(scaled2, fallback) ELSE scaled2
    IN  IF scaled3 > target THEN target - FitMargin ELSE scaled3

\* Lines 605-626: the relative offset added to the target origin, then
\* clamped into the target bounds.
ClampPos_Shifted(offset, size, t_lo, t_hi) ==
    Max(t_lo + EdgeInset, Min(t_lo + EdgeInset + offset, t_hi - size - EdgeInset))

ClampPos(offset, size, t_lo, t_hi) ==
    Max(t_lo + EdgeInset, Min(t_lo + offset, t_hi - size - EdgeInset))

\* Lines 549-550: the window size in physical pixels, original * scale.
window_physical_Logical(original, dpi) == Ratio(original, 1)

window_physical(original, dpi) == Ratio(original * dpi, BaseDpi)

\* Lines 567-568: int(physical / target_scale).
PhysicalToLogical_Unscaled(p, dpi) == p

PhysicalToLogical(p, dpi) == Trunc(p * BaseDpi, dpi)

\* Lines 558-559: the window origin as a fraction of the logical work area.
RelativePos(p, c_lo, c_len) ==
    IF c_len > 0 THEN Ratio(p - c_lo, c_len) ELSE <<1, 2>>

\* The set of results the call can produce: <<new_x, new_y, width, height>>
\* tuples, or <<"ZeroDivisionError">> when the source physical work area is 0.
calculate_target_position(rect, cur, tgt) ==
    LET x == rect[1]
        y == rect[2]
        original_width == rect[3] - rect[1]
        original_height == rect[4] - rect[2]
        cdpi == cur.dpi[1]
        tdpi == tgt.dpi[1]
        cw == cur.work_area
        tw == tgt.work_area
        current_physical_width == Trunc((cw[3] - cw[1]) * cdpi, BaseDpi)
        current_physical_height == Trunc((cw[4] - cw[2]) * cdpi, BaseDpi)
        target_physical_width == Trunc((tw[3] - tw[1]) * tdpi, BaseDpi)
        target_physical_height == Trunc((tw[4] - tw[2]) * tdpi, BaseDpi)
        current_logical_width == cw[3] - cw[1]
        current_logical_height == cw[4] - cw[2]
        target_width == tw[3] - tw[1]
        target_height == tw[4] - tw[2]
    IN  IF current_physical_width = 0 \/ current_physical_height = 0
        THEN {<<"ZeroDivisionError">>}
        ELSE
        LET \* window_physical / current_physical
            relative_width_ratio ==
                RatioMul(window_physical(original_width, cdpi), 1,
                         current_physical_width)
            relative_height_ratio ==
                RatioMul(window_physical(original_height, cdpi), 1,
                         current_physical_height)
            relative_x_ratio == RelativePos(x, cw[1], current_logical_width)
            relative_y_ratio == RelativePos(y, cw[2], current_logical_height)
            big == RatioGT(relative_width_ratio, 3, 2)
                   \/ RatioGT(relative_height_ratio, 3, 2)
            rw2 == IF big THEN CapRatio(relative_width_ratio)
                          ELSE relative_width_ratio
            rh2 == IF big THEN CapRatio(relative_height_ratio)
                          ELSE relative_height_ratio
            small == RatioLT(rw2, 1, 10) \/ RatioLT(rh2, 1, 10)
        IN  { LET scaled_w0 == PhysicalToLogical(pw, tdpi)
                  scaled_h0 == PhysicalToLogical(ph, tdpi)
                  bad == scaled_w0 <= 0 \/ scaled_h0 <= 0
                  scaled_width ==
                      ClampSize(scaled_w0, kw, bad, big, small, original_width,
                                target_width, FallbackWidth)
                  scaled_height ==
                      ClampSize(scaled_h0, kh, bad, big, small, original_height,
                                target_height, FallbackHeight)
              IN  << ClampPos(ox, scaled_width, tw[1], tw[3]),
                     ClampPos(oy, scaled_height, tw[2], tw[4]),
                     scaled_width, scaled_height >>
              : pw \in FloatInt(target_physical_width, relative_width_ratio),
                ph \in FloatInt(target_physical_height, relative_height_ratio),
                kw \in FloatInt(target_width, rw2),
                kh \in FloatInt(target_height, rh2),
                ox \in FloatInt(target_width, relative_x_ratio),
                oy \in FloatInt(target_height, relative_y_ratio) }

---------------------------------------------------------------------------
(* Driver of the geometry mapper: a source rectangle on one monitor is      *)
(* mapped to another monitor, and the result is mapped back.                *)

MaxJitter == 1   \* sizes are taken at base .. base + MaxJitter

Monitor(i, r, wa, d) == [index |-> i, rect |-> r, work_area |-> wa, dpi |-> <<d, d>>]

MonA == Monitor(0, <<0, 0, 1920, 1080>>, <<0, 0, 1920, 1040>>, 96)

MonB == Monitor(1, <<1920, 0, 3840, 1080>>, <<1920, 0, 3840, 1040>>, 96)

MonC == Monitor(1, <<-2560, -180, 0, 1260>>, <<-2560, -180, 0, 1220>>, 144)

MonD == Monitor(1, <<1920, 0, 3456, 864>>, <<1920, 0, 3456, 824>>, 120)

MonE == Monitor(0, <<0, 0, 1366, 768>>, <<0, 0, 1366, 728>>, 120)

GeomMonitors == {MonA, MonB, MonC, MonD, MonE}

WorkW(m) == m.work_area[3] - m.work_area[1]

WorkH(m) == m.work_area[4] - m.work_area[2]

\* Source rectangles on monitor m: offsets at and around the work-area
\* origin, sizes from empty over ordinary to twice the work area.
GeomRects(m) ==
    LET W == WorkW(m)
        H == WorkH(m)
        xs == {-30, 0, 245, W \div 2}
        ys == {0, 104, H - 50}
        ws == {0, 1, 150, 245, W \div 2, W - 5, W, 2 * W}
        hs == {1, 142, H \div 2, H, 2 * H}
    IN  { << m.work_area[1] + dx, m.work_area[2] + dy,
             m.work_area[1] + dx + w + jw, m.work_area[2] + dy + h + jh >>
          : dx \in xs, dy \in ys, w \in ws, h \in hs,
            jw \in 0..MaxJitter, jh \in 0..MaxJitter }

RectOf(t) == <<t[1], t[2], t[1] + t[3], t[2] + t[4]>>

IsRect(t) == Len(t) = 4

GeomInit ==
    /\ g_pc = "input"
    /\ g_current_monitor \in GeomMonitors
    /\ g_target_monitor \in GeomMonitors \ {g_current_monitor}
    /\ g_window_rect \in GeomRects(g_current_monitor)
    /\ g_target_rect = <<>>
    /\ g_back_rect = <<>>
    /\ ExclIdle
    /\ NextIdle
    /\ PipeIdle
    /\ HotkeyIdle
    /\ LifeIdle
    /\ RestIdle

\* calculate_target_position(window_rect, current_monitor, target_monitor)
MapRect ==
    /\ g_pc = "input"
    /\ g_target_rect' \in
           calculate_target_position(g_window_rect, g_current_monitor, g_target_monitor)
    /\ g_pc' = "mapped"
    /\ UNCHANGED <<g_window_rect, g_current_monitor, g_target_monitor, g_back_rect>>
    /\ UNCHANGED <<exclVars, nextVars, pipeVars, hotkeyVars, lifeVars, restVars>>

\* the window now has the computed rectangle and is mapped back
MapBack ==
    /\ g_pc = "mapped"
    /\ IsRect(g_target_rect)
    /\ g_back_rect' \in
           calculate_target_position(RectOf(g_target_rect), g_target_monitor,
                                     g_current_monitor)
    /\ g_pc' = "back"
    /\ UNCHANGED <<g_window_rect, g_current_monitor, g_target_monitor, g_target_rect>>
    /\ UNCHANGED <<exclVars, nextVars, pipeVars, hotkeyVars, lifeVars, restVars>>

GeomNext == MapRect \/ MapBack

SpecGeom == GeomInit /\ [][GeomNext]_vars

---------------------------------------------------------------------------
(* Properties of the geometry mapper (under SpecGeom) *)

Mapped == g_pc \in {"mapped", "back"} /\ IsRect(g_target_rect)

MappedBack == g_pc = "back" /\ IsRect(g_target_rect) /\ IsRect(g_back_rect)

SameScale == g_current_monitor.dpi = g_target_monitor.dpi

\* the rectangle's width and height are at least 10% of and smaller than the
\* work area of monitor m: no size fallback, cap, floor or fit applies
SizeOrdinary(rect, m) ==
    /\ 10 * (rect[3] - rect[1]) >= WorkW(m)
    /\ 10 * (rect[4] - rect[2]) >= WorkH(m)
    /\ rect[3] - rect[1] < WorkW(m)
    /\ rect[4] - rect[2] < WorkH(m)

\* the result t lies more than the inset inside the work area of m on every
\* side: the position clamp did not move it
WellInside(t, m) ==
    /\ t[1] > m.work_area[1] + EdgeInset
    /\ t[2] > m.work_area[2] + EdgeInset
    /\ t[1] + t[3] < m.work_area[3] - EdgeInset
    /\ t[2] + t[4] < m.work_area[4] - EdgeInset

\* |got - v * to / from| <= tol: value v of a range of length `from` is
\* reproduced on a range of length `to` within tol units
FractionKept(got, v, from, to, tol) == Abs(got * from - v * to) <= tol * from

\* C1: the width and height returned by calculate_target_position are at
\* least the minimum usable size (300x200) and at most the target work-area
\* width/height minus the fixed margin, for every source rectangle and pair
\* of monitors.
C1_SizeWithinBounds ==
    Mapped =>
        /\ g_target_rect[3] >= 300
        /\ g_target_rect[4] >= 200
        /\ g_target_rect[3] <= WorkW(g_target_monitor) - FitMargin
        /\ g_target_rect[4] <= WorkH(g_target_monitor) - FitMargin

\* C2: the rectangle returned by calculate_target_position lies fully inside
\* the target monitor's work area, also when the work-area origin is negative.
C2_InsideWorkArea ==
    Mapped =>
        /\ g_target_rect[1] >= g_target_monitor.work_area[1]
        /\ g_target_rect[2] >= g_target_monitor.work_area[2]
        /\ g_target_rect[1] + g_target_rect[3] <= g_target_monitor.work_area[3]
        /\ g_target_rect[2] + g_target_rect[4] <= g_target_monitor.work_area[4]

\* an offset after the round trip: never above the original, and below it by
\* at most 1 + from / to (from, to: the work-area lengths of the source and
\* the target monitor on that axis)
OffsetRestored(orig, got, from, to) ==
    /\ got <= orig
    /\ (orig - got) * to <= to + from

\* a size after the round trip: within 3 * (1 + from / to) of the original
SizeRestored(orig, got, from, to) == Abs(orig - got) * to <= 3 * (to + from)

RoundTripRestored ==
    LET o == g_window_rect
        b == g_back_rect
        cW == WorkW(g_current_monitor)
        cH == WorkH(g_current_monitor)
        tW == WorkW(g_target_monitor)
        tH == WorkH(g_target_monitor)
    IN  /\ OffsetRestored(o[1], b[1], cW, tW)
        /\ OffsetRestored(o[2], b[2], cH, tH)
        /\ SizeRestored(o[3] - o[1], b[3], cW, tW)
        /\ SizeRestored(o[4] - o[2], b[4], cH, tH)

\* C3 (as claimed): mapping a window rectangle A -> B and the result B -> A
\* yields the original position and size within rounding tolerance, for
\* every source rectangle.
C3_RoundTrip == MappedBack => RoundTripRestored

\* neither mapping of the round trip applied a size or position clamp
RoundTripUnclamped ==
    /\ SizeOrdinary(g_window_rect, g_current_monitor)
    /\ WellInside(g_target_rect, g_target_monitor)
    /\ SizeOrdinary(RectOf(g_target_rect), g_target_monitor)
    /\ WellInside(g_back_rect, g_current_monitor)

\* C3 (amended): when in both mappings the source size is at least 10% of
\* and smaller than the source work area and the result lies more than 10
\* units inside the target work area, the round trip returns a position that
\* is never above and at most 1 + Wa/Wb units below the original, and a size
\* within 3 * (1 + Wa/Wb) units of the original (Wa, Wb: the work-area
\* lengths of A and B on the axis).
C3_RoundTripUnclamped == (MappedBack /\ RoundTripUnclamped) => RoundTripRestored

\* a round trip without clamps that did lose a unit to rounding
C3_Witness ==
    /\ MappedBack
    /\ RoundTripUnclamped
    /\ g_back_rect[3] < g_window_rect[3] - g_window_rect[1]

FractionsKept(sizeTol) ==
    LET o == g_window_rect
        t == g_target_rect
        cw == g_current_monitor.work_area
        tw == g_target_monitor.work_area
        cW == WorkW(g_current_monitor)
        cH == WorkH(g_current_monitor)
        tW == WorkW(g_target_monitor)
        tH == WorkH(g_target_monitor)
    IN  /\ FractionKept(t[1] - tw[1], o[1] - cw[1], cW, tW, 1)
        /\ FractionKept(t[2] - tw[2], o[2] - cw[2], cH, tH, 1)
        /\ FractionKept(t[3], o[3] - o[1], cW, tW, sizeTol)
        /\ FractionKept(t[4], o[4] - o[2], cH, tH, sizeTol)

NotMuchLarger(target, source) ==
    /\ WorkW(target) < 3 * WorkW(source)
    /\ WorkH(target) < 3 * WorkH(source)

PhysicalFraction(size, len, m) == Ratio(size * m.dpi[1], len * m.dpi[1])

\* |a - b| <= 5%
Within5Percent(a, b) == 20 * Abs(a[1] * b[2] - b[1] * a[2]) <= a[2] * b[2]

FootprintKept ==
    /\ Within5Percent(
           PhysicalFraction(g_target_rect[3], WorkW(g_target_monitor), g_target_monitor),
           PhysicalFraction(g_window_rect[3] - g_window_rect[1],
                            WorkW(g_current_monitor), g_current_monitor))
    /\ Within5Percent(
           PhysicalFraction(g_target_rect[4], WorkH(g_target_monitor), g_target_monitor),
           PhysicalFraction(g_window_rect[4] - g_window_rect[2],
                            WorkH(g_current_monitor), g_current_monitor))

\* C5 (as claimed): between monitors of different scale factors the window's
\* physical width and height, as fractions of the physical work area, differ
\* from the source's by at most 5%, for every source rectangle.
C5_PhysicalFootprint == (Mapped /\ ~SameScale) => FootprintKept

\* C5 (amended): between monitors of different scale factors the physical
\* width and height, as fractions of the physical work area, differ from the
\* source's by at most 5% when the source width and height are at least 10%
\* of and smaller than the source work area (no size clamp applies) and the
\* target work area is at least 60 logical units wide and high.
C5_PhysicalFootprintUnclamped ==
    ( /\ Mapped
      /\ ~SameScale
      /\ SizeOrdinary(g_window_rect, g_current_monitor)
      /\ WorkW(g_target_monitor) >= 60
      /\ WorkH(g_target_monitor) >= 60 )
    => FootprintKept

\* a mapping between different scale factors of an ordinary-sized window
\* whose logical size changed
C5_Witness ==
    /\ Mapped
    /\ ~SameScale
    /\ SizeOrdinary(g_window_rect, g_current_monitor)
    /\ g_target_rect[3] # g_window_rect[3] - g_window_rect[1]

---------------------------------------------------------------------------
(* Monitor enumeration and the exclusion policy *)

SW_SHOWMINIMIZED == 2   \* showCmd of a minimized window

SW_SHOWMAXIMIZED == 3   \* showCmd of a maximized window

\* one entry of win32api.EnumDisplayMonitors with its monitor info and DPI
Display(r, wa, d) == [rect |-> r, work_area |-> wa, dpi |-> <<d, d>>]

monitor_data(index, display) ==
    [index |-> index, rect |-> display.rect,
     work_area |-> display.work_area, dpi |-> display.dpi]

\* The enumeration loop of get_monitors over the attached displays: the
\* display at position index is appended with that index unless processing
\* it raised (index \in failed), in which case it is skipped.  The list is
\* built in ascending index order, so the sort by index leaves it as it is.
EnumerateMonitors(displays, failed) ==
    SelectSeq([i \in 1..Len(displays) |-> monitor_data(i - 1, displays[i])],
              LAMBDA m : m.index \notin failed)

\* the window_info dictionary built by get_current_window
WindowInfo(hwnd, rect, title, class_name, showCmd) ==
    [hwnd |-> hwnd, rect |-> rect, title |-> title, class_name |-> class_name,
     is_maximized |-> (showCmd = SW_SHOWMAXIMIZED),
     is_minimized |-> (showCmd = SW_SHOWMINIMIZED)]

_calculate_overlap(rect1, rect2) ==
    LET left == Max(rect1[1], rect2[1])
        top == Max(rect1[2], rect2[2])
        right == Min(rect1[3], rect2[3])
        bottom == Min(rect1[4], rect2[4])
    IN  IF left < right /\ top < bottom
        THEN (right - left) * (bottom - top)
        ELSE 0

\* the loop of _find_window_monitor from position i on
RECURSIVE FindWindowMonitorFrom(_, _, _, _, _)
FindWindowMonitorFrom(window_rect, monitors, i, max_overlap, best_monitor) ==
    IF i > Len(monitors)
    THEN best_monitor
    ELSE LET overlap == _calculate_overlap(window_rect, monitors[i].rect)
         IN  IF overlap > max_overlap
             THEN FindWindowMonitorFrom(window_rect, monitors, i + 1, overlap,
                                        monitors[i])
             ELSE FindWindowMonitorFrom(window_rect, monitors, i + 1,
                                        max_overlap, best_monitor)

_find_window_monitor(window_rect, monitors) ==
    FindWindowMonitorFrom(window_rect, monitors, 1, 0, None)

_is_fullscreen_window_Geometric(window_info, monitors) ==
    LET window_monitor == _find_window_monitor(window_info.rect, monitors)
    IN  IF window_monitor = None
        THEN FALSE
        ELSE /\ window_info.rect[1] <= window_monitor.rect[1]
             /\ window_info.rect[2] <= window_monitor.rect[2]
             /\ window_info.rect[3] >= window_monitor.rect[3]
             /\ window_info.rect[4] >= window_monitor.rect[4]

\* monitors is what get_monitors() returns when the check asks for it
_is_fullscreen_window(window_info, monitors) ==
    IF window_info.is_maximized
    THEN FALSE
    ELSE LET window_monitor == _find_window_monitor(window_info.rect, monitors)
         IN  IF window_monitor = None
             THEN FALSE
             ELSE /\ window_info.rect[1] <= window_monitor.rect[1]
                  /\ window_info.rect[2] <= window_monitor.rect[2]
                  /\ window_info.rect[3] >= window_monitor.rect[3]
                  /\ window_info.rect[4] >= window_monitor.rect[4]

\* the characters str.strip() removes
Whitespace == {" ", "\t", "\n", "\r"}

RECURSIVE lstrip(_)
lstrip(s) ==
    IF s # <<>> /\ Head(s) \in Whitespace THEN lstrip(Tail(s)) ELSE s

RECURSIVE rstrip(_)
rstrip(s) ==
    IF s # <<>> /\ s[Len(s)] \in Whitespace
    THEN rstrip(SubSeq(s, 1, Len(s) - 1))
    ELSE s

\* title.strip(): a title is a sequence of characters
strip(title) == rstrip(lstrip(title))

excluded_classes == {"Shell_TrayWnd", "DV2ControlHost", "WorkerW", "Progman"}

_should_exclude_window_MinimizedPass(window_info, exclude_fullscreen, monitors) ==
    IF exclude_fullscreen /\ _is_fullscreen_window(window_info, monitors)
    THEN TRUE
    ELSE IF window_info.class_name \in excluded_classes
    THEN TRUE
    ELSE strip(window_info.title) = <<>>

\* exclude_fullscreen is the value of the exclude_fullscreen setting
_should_exclude_window(window_info, exclude_fullscreen, monitors) ==
    IF window_info.is_minimized
    THEN TRUE
    ELSE IF exclude_fullscreen /\ _is_fullscreen_window(window_info, monitors)
    THEN TRUE
    ELSE IF window_info.class_name \in excluded_classes
    THEN TRUE
    ELSE strip(window_info.title) = <<>>

---------------------------------------------------------------------------
(* Driver of the exclusion policy: a captured window and a monitor list    *)
(* are judged for fullscreen and then for exclusion.                       *)

MaxTitleLen == 2   \* titles have up to MaxTitleLen characters

DisplayA == Display(<<0, 0, 1920, 1080>>, <<0, 0, 1920, 1040>>, 96)

DisplayB == Display(<<1920, 0, 3840, 1080>>, <<1920, 0, 3840, 1040>>, 96)

DisplayC == Display(<<-2560, -180, 0, 1260>>, <<-2560, -180, 0, 1220>>, 144)

\* attached displays, in enumeration order
ExclLayouts ==
    { <<DisplayA>>, <<DisplayA, DisplayB>>, <<DisplayA, DisplayB, DisplayC>>,
      <<DisplayC, DisplayA>> }

\* every list get_monitors can return for a layout
ExclMonitorLists ==
    { EnumerateMonitors(d, failed) :
        d \in ExclLayouts, failed \in SUBSET {0, 1, 2} }

TitleChars == {"a", " ", "\t"}

Titles == UNION { [1..n -> TitleChars] : n \in 0..MaxTitleLen }

ClassNames == {"Notepad", "", "Shell_TrayWnd", "DV2ControlHost", "WorkerW", "Progman"}

\* window rectangles: ordinary, covering one display exactly or generously,
\* maximized with and without a bar taking work area, straddling two
\* displays evenly, covering display A and as much of C, off every
\* display, and the parked rectangle of a minimized window
ExclRects ==
    { <<100, 100, 900, 700>>,
      <<0, 0, 1920, 1080>>,
      <<-5, -5, 1925, 1085>>,
      <<-8, -8, 1928, 1048>>,
      <<-8, -8, 1928, 1088>>,
      <<0, 0, 1920, 1079>>,
      <<1920, 0, 3840, 1080>>,
      <<960, 0, 2880, 1080>>,
      <<0, 0, 3840, 1080>>,
      <<-1920, 0, 1920, 1080>>,
      <<5000, 5000, 5400, 5300>>,
      <<-32000, -32000, -31840, -31972>> }

ExclInit ==
    /\ e_pc = "input"
    /\ e_window_info \in
           { WindowInfo(1, r, t, c, s) :
               r \in ExclRects, t \in Titles, c \in ClassNames, s \in {1, 2, 3} }
    /\ e_monitors \in ExclMonitorLists
    /\ e_exclude_fullscreen \in BOOLEAN
    /\ e_fullscreen = FALSE
    /\ e_excluded = FALSE
    /\ GeomIdle
    /\ NextIdle
    /\ PipeIdle
    /\ HotkeyIdle
    /\ LifeIdle
    /\ RestIdle

\* _is_fullscreen_window(window_info)
JudgeFullscreen ==
    /\ e_pc = "input"
    /\ e_fullscreen' = _is_fullscreen_window(e_window_info, e_monitors)
    /\ e_pc' = "judged"
    /\ UNCHANGED <<e_window_info, e_monitors, e_exclude_fullscreen, e_excluded>>
    /\ UNCHANGED <<geomVars, nextVars, pipeVars, hotkeyVars, lifeVars, restVars>>

\* _should_exclude_window(window_info)
DecideExclusion ==
    /\ e_pc = "judged"
    /\ e_excluded' =
           _should_exclude_window(e_window_info, e_exclude_fullscreen, e_monitors)
    /\ e_pc' = "decided"
    /\ UNCHANGED <<e_window_info, e_monitors, e_exclude_fullscreen, e_fullscreen>>
    /\ UNCHANGED <<geomVars, nextVars, pipeVars, hotkeyVars, lifeVars, restVars>>

ExclNext == JudgeFullscreen \/ DecideExclusion

SpecExclude == ExclInit /\ [][ExclNext]_vars

---------------------------------------------------------------------------
(* Properties of the exclusion policy (under SpecExclude) *)

Judged == e_pc \in {"judged", "decided"}

Decided == e_pc = "decided"

\* the title has a character that is no whitespace
Titled(w) == \E i \in 1..Len(w.title) : w.title[i] \notin Whitespace

DenyListed(w) == w.class_name \in excluded_classes

\* area shared by two rectangles: product of the shared extents
SharedArea(a, b) ==
    Max(0, Min(a[3], b[3]) - Max(a[1], b[1])) *
    Max(0, Min(a[4], b[4]) - Max(a[2], b[2]))

\* position i holds the monitor the window has the largest overlap with:
\* the overlap is positive, none is larger, and none before it is as large
LargestOverlapAt(w, mons, i) ==
    /\ SharedArea(w.rect, mons[i].rect) > 0
    /\ \A j \in 1..Len(mons) :
           SharedArea(w.rect, mons[j].rect) <= SharedArea(w.rect, mons[i].rect)
    /\ \A j \in 1..(i - 1) :
           SharedArea(w.rect, mons[j].rect) < SharedArea(w.rect, mons[i].rect)

Contains(outer, inner) ==
    /\ outer[1] <= inner[1]
    /\ outer[2] <= inner[2]
    /\ outer[3] >= inner[3]
    /\ outer[4] >= inner[4]

\* the window is not maximized and its rectangle contains the bounds of the
\* monitor it has the largest overlap with
CoversItsMonitor(w, mons) ==
    /\ ~w.is_maximized
    /\ \E i \in 1..Len(mons) :
           LargestOverlapAt(w, mons, i) /\ Contains(w.rect, mons[i].rect)

\* C8: _should_exclude_window answers true for every minimized window, and
\* false for every window that is not minimized, has a non-blank title, has
\* a class outside the deny list and is not judged fullscreen.
C8_ExclusionPolicy ==
    Decided =>
        /\ e_window_info.is_minimized => e_excluded
        /\ ( /\ ~e_window_info.is_minimized
             /\ Titled(e_window_info)
             /\ ~DenyListed(e_window_info)
             /\ ~e_fullscreen )
           => ~e_excluded

\* a minimized window that passes every other test was excluded
C8_Witness ==
    /\ Decided
    /\ e_window_info.is_minimized
    /\ Titled(e_window_info)
    /\ ~DenyListed(e_window_info)
    /\ ~e_fullscreen
    /\ e_excluded

\* C9: a window is judged fullscreen exactly when it is not maximized and
\* its rectangle contains the bounds of the monitor it has the largest
\* overlap with; a maximized window with a title and a class outside the
\* deny list is never excluded; a fullscreen window that passes the other
\* tests is excluded only when exclude_fullscreen is enabled.
C9_FullscreenJudgement ==
    /\ Judged => (e_fullscreen <=> CoversItsMonitor(e_window_info, e_monitors))
    /\ Decided =>
        /\ ( /\ e_window_info.is_maximized
             /\ Titled(e_window_info)
             /\ ~DenyListed(e_window_info) )
           => ~e_excluded
        /\ ( /\ e_fullscreen
             /\ ~e_window_info.is_minimized
             /\ Titled(e_window_info)
             /\ ~DenyListed(e_window_info) )
           => (e_excluded <=> e_exclude_fullscreen)

\* a maximized window whose rectangle contains its monitor's bounds was let
\* through while the fullscreen exclusion is enabled
C9_Witness ==
    /\ Decided
    /\ e_window_info.is_maximized
    /\ e_exclude_fullscreen
    /\ \E i \in 1..Len(e_monitors) :
           /\ LargestOverlapAt(e_window_info, e_monitors, i)
           /\ Contains(e_window_info.rect, e_monitors[i].rect)
    /\ Titled(e_window_info)
    /\ ~DenyListed(e_window_info)
    /\ ~e_fullscreen
    /\ ~e_excluded

---------------------------------------------------------------------------
(* Monitor cycling *)

\* the search loop of _get_next_monitor from position i on
RECURSIVE FindIndexFrom(_, _, _)
FindIndexFrom(monitors, next_index, i) ==
    IF i > Len(monitors)
    THEN None
    ELSE IF monitors[i].index = next_index
    THEN monitors[i]
    ELSE FindIndexFrom(monitors, next_index, i + 1)

\* monitors is not empty where the program calls this
_get_next_monitor(current_monitor, monitors) ==
    FindIndexFrom(monitors, (current_monitor.index + 1) % Len(monitors), 1)

---------------------------------------------------------------------------
(* Driver of the monitor cycling: from a monitor of an enumerated list,    *)
(* _get_next_monitor is applied once per monitor of the list.              *)

MaxDisplays == 5   \* up to MaxDisplays displays are attached

\* the display at enumeration position i of a row of equal displays
DisplayAt(i) ==
    Display(<<1920 * i, 0, 1920 * (i + 1), 1080>>,
            <<1920 * i, 0, 1920 * (i + 1), 1040>>, 96)

AttachedDisplays(k) == [i \in 1..k |-> DisplayAt(i - 1)]

Range(s) == { s[i] : i \in 1..Len(s) }

NextInit ==
    /\ n_pc = "cycling"
    /\ \E k \in 1..MaxDisplays, failed \in SUBSET (0..(MaxDisplays - 1)) :
           /\ failed \subseteq 0..(k - 1)
           /\ n_monitors = EnumerateMonitors(AttachedDisplays(k), failed)
    /\ n_start \in Range(n_monitors)
    /\ n_current = n_start
    /\ n_steps = 0
    /\ GeomIdle
    /\ ExclIdle
    /\ PipeIdle
    /\ HotkeyIdle
    /\ LifeIdle
    /\ RestIdle

\* next_monitor = _get_next_monitor(current_monitor, monitors)
CycleStep ==
    /\ n_pc = "cycling"
    /\ n_steps < Len(n_monitors)
    /\ n_current' = _get_next_monitor(n_current, n_monitors)
    /\ n_pc' = IF n_current' = None THEN "lost" ELSE "cycling"
    /\ n_steps' = n_steps + 1
    /\ UNCHANGED <<n_monitors, n_start>>
    /\ UNCHANGED <<geomVars, exclVars, pipeVars, hotkeyVars, lifeVars, restVars>>

NextNext == CycleStep

SpecNext == NextInit /\ [][NextNext]_vars

---------------------------------------------------------------------------
(* Properties of the monitor cycling (under SpecNext) *)

PositionOf(m, mons) == CHOOSE i \in 1..Len(mons) : mons[i] = m

\* the monitor s places after m in the list, wrapping at the end
Following(m, mons, s) == mons[((PositionOf(m, mons) - 1 + s) % Len(mons)) + 1]

\* every display of the enumeration is in the list: indexes 0 .. n-1
NothingLeftOut(mons) == \A i \in 1..Len(mons) : mons[i].index = i - 1

\* C10: _get_next_monitor cycles deterministically: each application leads
\* to the monitor whose index is (current index + 1) mod n, so that after s
\* applications the monitor s places after the start is reached, n
\* applications return to the start, and every monitor is visited once.
C10_NextMonitorCycles ==
    n_pc \in {"cycling", "lost"} =>
        /\ n_current = Following(n_start, n_monitors, n_steps)
        /\ n_steps = Len(n_monitors) => n_current = n_start

\* the cycle of C10 on the lists that leave no enumerated display out
C10_CyclesWhenNothingLeftOut ==
    (n_pc \in {"cycling", "lost"} /\ NothingLeftOut(n_monitors)) =>
        /\ n_current = Following(n_start, n_monitors, n_steps)
        /\ n_current.index = (n_start.index + n_steps) % Len(n_monitors)
        /\ n_steps = Len(n_monitors) => n_current = n_start

\* a full cycle over three or more monitors came back to its start
C10_CycleWitness ==
    /\ n_pc = "cycling"
    /\ Len(n_monitors) >= 3
    /\ n_steps = Len(n_monitors)
    /\ n_current = n_start

\* C25: from a monitor of a list of at least 2 monitors, _get_next_monitor
\* returns another monitor of the list, never None, whether or not an
\* enumerated display was left out of the list.
C25_NextMonitorFound ==
    [][(Len(n_monitors) >= 2 /\ n_current \in Range(n_monitors)) =>
           (n_current' \in Range(n_monitors) /\ n_current' # n_current)]_vars

---------------------------------------------------------------------------
(* The desktop: displays, top-level windows and the windowing calls *)

cache_duration == 5 \* seconds a monitor list stays cached

\* the rectangle of a window maximized on a display: its work area
MaximizedRect(display) == display.work_area

\* where a minimized window is parked
ParkedRect == <<-32000, -32000, -31840, -31972>>

\* position (from 0) of the display the rectangle is on: the display it
\* shares the largest area with, the first display when it shares none
DisplayOfRect(rect, displays) ==
    LET found == _find_window_monitor(rect, EnumerateMonitors(displays, {}))
    IN  IF found = None THEN 0 ELSE found.index

\* a top-level window: show state (showCmd), rectangle on screen, restored
\* rectangle (rcNormalPosition), title and class
Window(showCmd, rect, normal, title, class_name) ==
    [showCmd |-> showCmd, rect |-> rect, normal |-> normal,
     title |-> title, class_name |-> class_name]

\* effect of SetWindowPos(hwnd, 0, x, y, cx, cy, flags) on window w; nomove
\* and nosize say whether SWP_NOMOVE and SWP_NOSIZE are among the flags
SetWindowPosEffect(w, x, y, cx, cy, nomove, nosize) ==
    LET left == IF nomove THEN w.rect[1] ELSE x
        top == IF nomove THEN w.rect[2] ELSE y
        width == IF nosize THEN w.rect[3] - w.rect[1] ELSE cx
        height == IF nosize THEN w.rect[4] - w.rect[2] ELSE cy
        moved == <<left, top, left + width, top + height>>
    IN  [w EXCEPT !.rect = moved,
                  !.normal = IF w.showCmd = SW_SHOWMAXIMIZED THEN @ ELSE moved]

\* effect of MoveWindow(hwnd, x, y, width, height, True)
MoveWindowEffect(w, x, y, width, height) ==
    SetWindowPosEffect(w, x, y, width, height, FALSE, FALSE)

\* effect of ShowWindow(hwnd, cmd) for cmd "SW_RESTORE" and "SW_MAXIMIZE"
ShowWindowEffect(w, cmd, displays) ==
    IF cmd = "SW_RESTORE"
    THEN [w EXCEPT !.showCmd = 1, !.rect = w.normal]
    ELSE IF w.showCmd = SW_SHOWMAXIMIZED
    THEN w
    ELSE [w EXCEPT !.showCmd = SW_SHOWMAXIMIZED,
                   !.rect = MaximizedRect(
                                displays[DisplayOfRect(w.rect, displays) + 1])]

\* effect of SetWindowPlacement(hwnd, placement) with showCmd 3 and the
\* restored rectangle normal: maximized on the display of that rectangle
SetWindowPlacementEffect(w, normal, displays) ==
    [w EXCEPT !.showCmd = SW_SHOWMAXIMIZED,
              !.normal = normal,
              !.rect = MaximizedRect(displays[DisplayOfRect(normal, displays) + 1])]

\* What a call against a window can do: report success after taking effect,
\* report nothing (pywin32 returns None) or failure with or without taking
\* effect, or raise without effect.
CallOutcomes ==
    { [ret |-> "truthy", applied |-> TRUE],
      [ret |-> "falsy", applied |-> TRUE],
      [ret |-> "falsy", applied |-> FALSE],
      [ret |-> "raise", applied |-> FALSE] }

---------------------------------------------------------------------------
(* get_monitors *)

MaxFailed == 1   \* displays whose processing may fail in one enumeration

FailedSets(displays) ==
    { f \in SUBSET (0..(Len(displays) - 1)) : Cardinality(f) <= MaxFailed }

\* get_monitors(): the possible <<returned list, monitors_cache,
\* cache_timestamp>> at time current_time.  A cached list is returned while
\* it is not empty and younger than cache_duration; otherwise the displays
\* are enumerated, and either the enumeration raises (an empty list is
\* returned, the cache is left alone) or every display that can be processed
\* is listed and the list is cached.
\* `if self.monitors_cache and current_time - self.cache_timestamp <
\* self.cache_duration`
CacheServes(cache, timestamp, current_time) ==
    cache # <<>> /\ current_time - timestamp < cache_duration

EnumerationOutcomes_CachesFailure(cache, timestamp, current_time, displays) ==
    { [value |-> <<>>, cache |-> <<>>, timestamp |-> current_time,
       enumerated |-> TRUE, failed |-> TRUE] } \cup
    { [value |-> EnumerateMonitors(displays, f),
       cache |-> EnumerateMonitors(displays, f), timestamp |-> current_time,
       enumerated |-> TRUE, failed |-> FALSE] : f \in FailedSets(displays) }

\* lines 357-405, the enumeration: EnumDisplayMonitors raises (an empty list
\* is returned, cache and timestamp stay), or the displays that can be
\* processed are listed and the list is cached with the time read at the
\* start of the call
EnumerationOutcomes(cache, timestamp, current_time, displays) ==
    { [value |-> <<>>, cache |-> cache, timestamp |-> timestamp,
       enumerated |-> TRUE, failed |-> TRUE] } \cup
    { [value |-> EnumerateMonitors(displays, f),
       cache |-> EnumerateMonitors(displays, f), timestamp |-> current_time,
       enumerated |-> TRUE, failed |-> FALSE] : f \in FailedSets(displays) }

\* a whole call of get_monitors: what it returns, the cache and timestamp
\* it leaves, whether it enumerated and whether the enumeration failed
MonitorsOutcomes(cache, timestamp, current_time, displays) ==
    IF CacheServes(cache, timestamp, current_time)
    THEN { [value |-> cache, cache |-> cache, timestamp |-> timestamp,
            enumerated |-> FALSE, failed |-> FALSE] }
    ELSE EnumerationOutcomes(cache, timestamp, current_time, displays)

get_monitors(cache, timestamp, current_time, displays) ==
    { <<o.value, o.cache, o.timestamp>> :
        o \in MonitorsOutcomes(cache, timestamp, current_time, displays) }

---------------------------------------------------------------------------
(* move_active_window_to_next_monitor, one step per call that reads or     *)
(* changes the desktop                                                     *)

MaxAttached == 3   \* up to MaxAttached displays are attached

MaxTime == 5       \* the clock runs from 0 to MaxTime

MaxPresses == 1    \* runs of the operation in one behaviour

Handles == {1, 2}

\* restored rectangle of the first window when it is on display d: a quarter
\* into the work area and half its size
NormalAt(d) == <<1920 * d + 480, 260, 1920 * d + 1440, 780>>

\* the first window: restored, minimized or maximized on the first or the
\* last display, of an ordinary or a deny-listed class, or a window without
\* title, or one that covers its display
FirstWindows(displays) ==
    { Window(s,
             IF s = SW_SHOWMAXIMIZED THEN MaximizedRect(displays[d + 1])
             ELSE IF s = SW_SHOWMINIMIZED THEN ParkedRect
             ELSE NormalAt(d),
             NormalAt(d), <<"a">>, c) :
        s \in {1, SW_SHOWMINIMIZED, SW_SHOWMAXIMIZED},
        d \in {0, Len(displays) - 1},
        c \in {"Notepad", "Progman"} }
    \cup { Window(1, NormalAt(0), NormalAt(0), <<" ">>, "Notepad"),
           Window(1, displays[1].rect, displays[1].rect, <<"a">>, "Notepad") }

SecondWindow ==
    Window(1, <<240, 130, 1200, 650>>, <<240, 130, 1200, 650>>, <<"b">>, "Notepad")

Init ==
    /\ attached_displays \in { AttachedDisplays(k) : k \in 1..MaxAttached }
    /\ \E w \in FirstWindows(attached_displays) :
           windows = [h \in Handles |-> IF h = 1 THEN w ELSE SecondWindow]
    /\ foreground \in {0} \cup Handles
    /\ now = 0
    /\ monitors_cache = <<>>
    /\ cache_timestamp = 0
    /\ setting_exclude_fullscreen \in BOOLEAN
    /\ pc = "idle"
    /\ presses = 0
    /\ RunReset
    /\ GeomIdle
    /\ ExclIdle
    /\ NextIdle
    /\ HotkeyIdle
    /\ LifeIdle
    /\ RestIdle

otherVars == <<geomVars, exclVars, nextVars, hotkeyVars, lifeVars, restVars>>

\* Time passes.  The program reads the clock in get_monitors only, so the
\* clock is advanced where a call of get_monitors comes next or no run is
\* under way; time passing elsewhere is seen by the program as time passed
\* by then.
Tick ==
    /\ pc \in {"idle", "done", "exclude", "plan"}
    /\ now < MaxTime
    /\ now' = now + 1
    /\ UNCHANGED <<attached_displays, windows, foreground>>
    /\ UNCHANGED <<fieldVars, runVars, otherVars>>

\* The user brings another window, or none, to the foreground.  The program
\* asks for the foreground window in get_current_window and in _move_window,
\* and the change is made where one of the two comes next.
SwitchForeground ==
    /\ pc \in {"capture", "validate"}
    /\ \E h \in ({0} \cup Handles) \ {foreground} :
           /\ h # 0 => windows[h].showCmd # SW_SHOWMINIMIZED
           /\ foreground' = h
    /\ UNCHANGED <<attached_displays, windows, now>>
    /\ UNCHANGED <<fieldVars, runVars, otherVars>>

\* the run ends at the return statement `site` with `value`
Return(site, value) ==
    /\ pc' = "done"
    /\ returned_at' = site
    /\ result' = value

\* the hotkey fires: move_active_window_to_next_monitor starts
Press ==
    /\ pc \in {"idle", "done"}
    /\ presses < MaxPresses
    /\ presses' = presses + 1
    /\ pc' = "capture"
    /\ m_window_info' = None
    /\ m_excluded' = FALSE
    /\ m_judged_on' = NotRead
    /\ m_monitors' = <<>>
    /\ m_current_monitor' = None
    /\ m_next_monitor' = None
    /\ m_target' = <<>>
    /\ m_hwnd' = 0
    /\ calls' = <<>>
    /\ returned_at' = "none"
    /\ result' = FALSE
    /\ UNCHANGED <<deskVars, fieldVars, otherVars>>

\* window_info = self.get_current_window()
Capture ==
    /\ pc = "capture"
    /\ \/ /\ foreground # 0
          /\ m_window_info' =
                 WindowInfo(foreground, windows[foreground].rect,
                            windows[foreground].title,
                            windows[foreground].class_name,
                            windows[foreground].showCmd)
          /\ pc' = "exclude"
          /\ UNCHANGED <<returned_at, result>>
       \/ \* no foreground window, or a query about it raised
          /\ m_window_info' = None
          /\ Return("no_window", FALSE)
    /\ UNCHANGED <<presses, m_excluded, m_judged_on, m_monitors, m_current_monitor,
                   m_next_monitor, m_target, m_hwnd, calls>>
    /\ UNCHANGED <<deskVars, fieldVars, otherVars>>

\* if self._should_exclude_window(window_info): return False
\* get_monitors is called when the fullscreen check needs the monitor list
CheckExclusion ==
    /\ pc = "exclude"
    /\ LET asked == /\ ~m_window_info.is_minimized
                     /\ setting_exclude_fullscreen
                     /\ ~m_window_info.is_maximized
       IN
       \E g \in ( IF asked
                  THEN get_monitors(monitors_cache, cache_timestamp, now,
                                    attached_displays)
                  ELSE { <<<<>>, monitors_cache, cache_timestamp>> } ) :
           /\ monitors_cache' = g[2]
           /\ cache_timestamp' = g[3]
           /\ m_judged_on' = IF asked THEN [read |-> TRUE, value |-> g[1]]
                                      ELSE NotRead
           /\ m_excluded' = _should_exclude_window(m_window_info,
                                  setting_exclude_fullscreen, g[1])
           /\ IF m_excluded'
              THEN Return("excluded", FALSE)
              ELSE pc' = "plan" /\ UNCHANGED <<returned_at, result>>
    /\ UNCHANGED <<presses, m_window_info, m_monitors, m_current_monitor,
                   m_next_monitor, m_target, m_hwnd, calls>>
    /\ UNCHANGED <<deskVars, setting_exclude_fullscreen, otherVars>>

FewMonitors_None(monitors) == Len(monitors) < 1

FewMonitors(monitors) == Len(monitors) < 2

\* monitors = self.get_monitors() up to the call of self._move_window:
\* monitor count, current monitor, next monitor, target rectangle
Plan ==
    /\ pc = "plan"
    /\ \E g \in get_monitors(monitors_cache, cache_timestamp, now,
                             attached_displays) :
         LET current == _find_window_monitor(m_window_info.rect, g[1])
             next == IF current = None THEN None
                     ELSE _get_next_monitor(current, g[1])
         IN  /\ m_monitors' = g[1]
             /\ monitors_cache' = g[2]
             /\ cache_timestamp' = g[3]
             /\ IF FewMonitors(g[1])
                THEN /\ Return("few_monitors", FALSE)
                     /\ UNCHANGED <<m_current_monitor, m_next_monitor, m_target>>
                ELSE IF current = None
                THEN /\ Return("no_current_monitor", FALSE)
                     /\ UNCHANGED <<m_current_monitor, m_next_monitor, m_target>>
                ELSE IF next = None
                THEN /\ Return("no_next_monitor", FALSE)
                     /\ m_current_monitor' = current
                     /\ UNCHANGED <<m_next_monitor, m_target>>
                ELSE /\ m_current_monitor' = current
                     /\ m_next_monitor' = next
                     /\ \E t \in calculate_target_position(m_window_info.rect,
                                                           current, next) :
                          /\ m_target' = t
                          /\ IF IsRect(t)
                             THEN pc' = "validate" /\ UNCHANGED <<returned_at, result>>
                             ELSE Return("exception", FALSE)
    /\ UNCHANGED <<presses, m_window_info, m_excluded, m_judged_on, m_hwnd, calls>>
    /\ UNCHANGED <<deskVars, setting_exclude_fullscreen, otherVars>>

\* _move_window: the handle checks, then the choice of the placement.  The
\* checks (IsWindow, GetForegroundWindow) come before the try block: when
\* one of them raises, the exception leaves _move_window and the run's own
\* handler returns False.
Validate ==
    /\ pc = "validate"
    /\ \/ /\ m_hwnd' = foreground
          /\ IF foreground = 0
             THEN Return("invalid_handle", FALSE)
             ELSE /\ pc' = IF m_window_info.is_maximized
                           THEN "placement" ELSE "move_only"
                  /\ UNCHANGED <<returned_at, result>>
       \/ /\ UNCHANGED m_hwnd
          /\ Return("move_window_raised", FALSE)
    /\ UNCHANGED <<presses, m_window_info, m_excluded, m_judged_on, m_monitors,
                   m_current_monitor, m_next_monitor, m_target, calls>>
    /\ UNCHANGED <<deskVars, fieldVars, otherVars>>

---------------------------------------------------------------------------
(* The placement: _move_window and _move_maximized_window *)

tolerance == 10     \* distance at which a position counts as reached

TempWidth == 800    \* largest temporary width of a restored window

TempHeight == 600   \* largest temporary height of a restored window

MovedSlack == 100   \* slack of the check that a maximized window moved

\* the call `name` against the placement's handle joins the run's calls
Issued(name) == calls' = Append(calls, <<name, m_hwnd>>)

\* the placement's window becomes w when the call took effect
Applied(o, w) ==
    windows' = IF o.applied THEN [windows EXCEPT ![m_hwnd] = w] ELSE windows

Reached_VerticalOnly(rect) == Abs(rect[2] - m_target[2]) <= tolerance

\* the tolerance check on a rectangle GetWindowRect returned
Reached(rect) ==
    /\ Abs(rect[1] - m_target[1]) <= tolerance
    /\ Abs(rect[2] - m_target[2]) <= tolerance

placeFrame == <<presses, m_window_info, m_excluded, m_judged_on, m_monitors,
                m_current_monitor, m_next_monitor, m_target, m_hwnd>>

\* SetWindowPos(hwnd, 0, new_x, new_y, 0, 0, ... | SWP_NOSIZE)
MoveOnly ==
    /\ pc = "move_only"
    /\ \E o \in CallOutcomes :
           /\ Issued("SetWindowPos(SWP_NOSIZE)")
           /\ Applied(o, SetWindowPosEffect(windows[m_hwnd], m_target[1],
                                            m_target[2], 0, 0, FALSE, TRUE))
           /\ IF o.ret = "truthy"
              THEN pc' = "resize" /\ UNCHANGED <<returned_at, result>>
              ELSE IF o.ret = "falsy"
              THEN pc' = "combined" /\ UNCHANGED <<returned_at, result>>
              ELSE Return("exception", FALSE)
    /\ UNCHANGED <<placeFrame, attached_displays, foreground, now>>
    /\ UNCHANGED <<fieldVars, otherVars>>

\* SetWindowPos(hwnd, 0, 0, 0, new_width, new_height, ... | SWP_NOMOVE)
ResizeOnly ==
    /\ pc = "resize"
    /\ \E o \in CallOutcomes :
           /\ Issued("SetWindowPos(SWP_NOMOVE)")
           /\ Applied(o, SetWindowPosEffect(windows[m_hwnd], 0, 0, m_target[3],
                                            m_target[4], TRUE, FALSE))
           /\ IF o.ret = "truthy"
              THEN Return("resized", TRUE)
              ELSE IF o.ret = "falsy"
              THEN Return("moved_only", TRUE)
              ELSE Return("exception", FALSE)
    /\ UNCHANGED <<placeFrame, attached_displays, foreground, now>>
    /\ UNCHANGED <<fieldVars, otherVars>>

\* SetWindowPos(hwnd, 0, new_x, new_y, new_width, new_height, ...)
Combined ==
    /\ pc = "combined"
    /\ \E o \in CallOutcomes :
           /\ Issued("SetWindowPos")
           /\ Applied(o, SetWindowPosEffect(windows[m_hwnd], m_target[1],
                                            m_target[2], m_target[3],
                                            m_target[4], FALSE, FALSE))
           /\ IF o.ret = "truthy"
              THEN Return("combined", TRUE)
              ELSE IF o.ret = "falsy"
              THEN pc' = "verify" /\ UNCHANGED <<returned_at, result>>
              ELSE Return("exception", FALSE)
    /\ UNCHANGED <<placeFrame, attached_displays, foreground, now>>
    /\ UNCHANGED <<fieldVars, otherVars>>

\* current_rect = GetWindowRect(hwnd) and the tolerance check; the read may
\* raise, which skips the check
VerifyCombined ==
    /\ pc = "verify"
    /\ \/ /\ Reached(windows[m_hwnd].rect)
          /\ Return("verified", TRUE)
       \/ /\ ~Reached(windows[m_hwnd].rect)
          /\ pc' = "move_window"
          /\ UNCHANGED <<returned_at, result>>
       \/ /\ pc' = "move_window"
          /\ UNCHANGED <<returned_at, result>>
    /\ UNCHANGED <<placeFrame, calls, deskVars, fieldVars, otherVars>>

\* MoveWindow(hwnd, new_x, new_y, new_width, new_height, True)
MoveWindowFallback ==
    /\ pc = "move_window"
    /\ \E o \in CallOutcomes :
           /\ Issued("MoveWindow")
           /\ Applied(o, MoveWindowEffect(windows[m_hwnd], m_target[1],
                                          m_target[2], m_target[3], m_target[4]))
           /\ IF o.ret = "truthy"
              THEN Return("move_window", TRUE)
              ELSE IF o.ret = "falsy"
              THEN pc' = "verify_final" /\ UNCHANGED <<returned_at, result>>
              ELSE Return("move_window_exception", FALSE)
    /\ UNCHANGED <<placeFrame, attached_displays, foreground, now>>
    /\ UNCHANGED <<fieldVars, otherVars>>

\* final_rect = GetWindowRect(hwnd) and the tolerance check
VerifyFinal ==
    /\ pc = "verify_final"
    /\ \/ /\ Reached(windows[m_hwnd].rect)
          /\ Return("verified_final", TRUE)
       \/ /\ ~Reached(windows[m_hwnd].rect)
          /\ Return("not_moved", FALSE)
       \/ Return("not_moved", FALSE)
    /\ UNCHANGED <<placeFrame, calls, deskVars, fieldVars, otherVars>>

\* Method 1: GetWindowPlacement, then SetWindowPlacement with showCmd 3 and
\* the restored rectangle moved to (new_x, new_y)
FastPlacement ==
    /\ pc = "placement"
    /\ \/ \* GetWindowPlacement raised
          /\ pc' = "restore"
          /\ UNCHANGED <<calls, windows, returned_at, result>>
       \/ \E o \in CallOutcomes :
            LET normal_rect == windows[m_hwnd].normal
                new_normal_rect ==
                    <<m_target[1], m_target[2],
                      m_target[1] + (normal_rect[3] - normal_rect[1]),
                      m_target[2] + (normal_rect[4] - normal_rect[2])>>
            IN  /\ Issued("SetWindowPlacement")
                /\ Applied(o, SetWindowPlacementEffect(windows[m_hwnd],
                                  new_normal_rect, attached_displays))
                /\ IF o.ret = "truthy"
                   THEN Return("fast_placement", TRUE)
                   ELSE pc' = "restore" /\ UNCHANGED <<returned_at, result>>
    /\ UNCHANGED <<placeFrame, attached_displays, foreground, now>>
    /\ UNCHANGED <<fieldVars, otherVars>>

\* the window after ShowWindow(hwnd, cmd)
Shown(cmd) ==
    windows' = [windows EXCEPT
                   ![m_hwnd] = ShowWindowEffect(@, cmd, attached_displays)]

\* Method 2, step 1: ShowWindow(hwnd, SW_RESTORE)
Restore ==
    /\ pc = "restore"
    /\ Issued("ShowWindow")
    /\ Shown("SW_RESTORE")
    /\ pc' = "temp_move"
    /\ UNCHANGED <<returned_at, result>>
    /\ UNCHANGED <<placeFrame, attached_displays, foreground, now>>
    /\ UNCHANGED <<fieldVars, otherVars>>

\* Method 2, step 2: SetWindowPos(hwnd, 0, new_x, new_y, temp_width,
\* temp_height, ...)
TempMove ==
    /\ pc = "temp_move"
    /\ \E o \in CallOutcomes :
           /\ Issued("SetWindowPos")
           /\ Applied(o, SetWindowPosEffect(windows[m_hwnd], m_target[1],
                                            m_target[2],
                                            Min(m_target[3], TempWidth),
                                            Min(m_target[4], TempHeight),
                                            FALSE, FALSE))
           /\ pc' = IF o.ret = "truthy" THEN "maximize_moved"
                    ELSE IF o.ret = "falsy" THEN "verify_maximized"
                    ELSE "maximize_back"
    /\ UNCHANGED <<returned_at, result>>
    /\ UNCHANGED <<placeFrame, attached_displays, foreground, now>>
    /\ UNCHANGED <<fieldVars, otherVars>>

\* the move reported success: ShowWindow(hwnd, SW_MAXIMIZE), return True
MaximizeMoved ==
    /\ pc = "maximize_moved"
    /\ Issued("ShowWindow")
    /\ Shown("SW_MAXIMIZE")
    /\ Return("fallback", TRUE)
    /\ UNCHANGED <<placeFrame, attached_displays, foreground, now>>
    /\ UNCHANGED <<fieldVars, otherVars>>

\* if current_rect[0] >= new_x - 100
MovedFarEnough(rect, new_x) == rect[1] >= new_x - MovedSlack

\* the move reported failure: GetWindowRect, the check of the x coordinate,
\* ShowWindow(hwnd, SW_MAXIMIZE) and the return; the read may raise, which
\* skips the check
VerifyMaximized ==
    /\ pc = "verify_maximized"
    /\ Issued("ShowWindow")
    /\ Shown("SW_MAXIMIZE")
    /\ \/ /\ MovedFarEnough(windows[m_hwnd].rect, m_target[1])
          /\ Return("verified_maximized", TRUE)
       \/ /\ ~MovedFarEnough(windows[m_hwnd].rect, m_target[1])
          /\ Return("restored_original", FALSE)
       \/ Return("restored_original", FALSE)
    /\ UNCHANGED <<placeFrame, attached_displays, foreground, now>>
    /\ UNCHANGED <<fieldVars, otherVars>>

\* the move raised: ShowWindow(hwnd, SW_MAXIMIZE), return False
MaximizeBack ==
    /\ pc = "maximize_back"
    /\ Issued("ShowWindow")
    /\ Shown("SW_MAXIMIZE")
    /\ Return("fallback_exception", FALSE)
    /\ UNCHANGED <<placeFrame, attached_displays, foreground, now>>
    /\ UNCHANGED <<fieldVars, otherVars>>

Next ==
    \/ Tick
    \/ SwitchForeground
    \/ Press
    \/ Capture
    \/ CheckExclusion
    \/ Plan
    \/ Validate
    \/ MoveOnly
    \/ ResizeOnly
    \/ Combined
    \/ VerifyCombined
    \/ MoveWindowFallback
    \/ VerifyFinal
    \/ FastPlacement
    \/ Restore
    \/ TempMove
    \/ MaximizeMoved
    \/ VerifyMaximized
    \/ MaximizeBack

Spec == Init /\ [][Next]_vars

---------------------------------------------------------------------------
(* Properties of the operation (under Spec) *)

Done == pc = "done"

\* get_current_window returned no window
NoWindowCaptured == m_window_info = None

\* the captured window is excluded: _should_exclude_window said so, or the
\* window is minimized, has a blank title or a deny-listed class
CapturedExcluded ==
    IF m_window_info = None
    THEN FALSE
    ELSE \/ m_excluded
         \/ m_window_info.is_minimized
         \/ ~Titled(m_window_info)
         \/ DenyListed(m_window_info)

\* C7: when no foreground window is captured, or the captured window is
\* excluded, or fewer than 2 monitors are available, the run returns false
\* and issues no mutating call (SetWindowPos, MoveWindow, ShowWindow,
\* SetWindowPlacement) against any window.
C7_AbortWithoutMutation ==
    (Done /\ (NoWindowCaptured \/ CapturedExcluded \/ Len(m_monitors) < 2))
    => (result = FALSE /\ calls = <<>>)

\* a run on a movable window ended because one monitor was listed
C7_Witness ==
    /\ Done
    /\ ~NoWindowCaptured
    /\ ~CapturedExcluded
    /\ Len(m_monitors) = 1
    /\ result = FALSE
    /\ calls = <<>>

\* the run handed the window it captured as maximized to the placement
MaximizedPlacementRan ==
    /\ Done
    /\ m_window_info # None
    /\ m_hwnd # 0
    /\ m_hwnd = m_window_info.hwnd
    /\ m_window_info.is_maximized

\* position (from 0) of the display the placed window is on
PlacedOn == DisplayOfRect(windows[m_hwnd].rect, attached_displays)

\* C6: for a window captured as maximized, the placement ends with the
\* window maximized: on the destination monitor when it returns true, on
\* the original monitor when it returns false; the window is never left
\* restored, and true is never returned with the window still on the
\* original monitor.
C6_MaximizedPlacement ==
    MaximizedPlacementRan =>
        /\ windows[m_hwnd].showCmd = SW_SHOWMAXIMIZED
        /\ result = TRUE => PlacedOn = m_next_monitor.index
        /\ result = FALSE => PlacedOn = m_current_monitor.index

\* the placement of a window captured as normal ran on a valid handle
NormalPlacementRan ==
    /\ Done
    /\ m_window_info # None
    /\ ~m_window_info.is_maximized
    /\ m_hwnd # 0
    /\ calls # <<>>

\* C17: _move_window and _move_maximized_window never raise; an exception
\* of the windowing API during validation, positioning or verification is
\* caught inside the placement and becomes a false result.
C17_PlacementNeverRaises == returned_at # "move_window_raised"

\* the placed window is within the tolerance of the target position
PositionWithinTolerance ==
    /\ Abs(windows[m_hwnd].rect[1] - m_target[1]) <= tolerance
    /\ Abs(windows[m_hwnd].rect[2] - m_target[2]) <= tolerance

SizeAsPlanned ==
    /\ windows[m_hwnd].rect[3] - windows[m_hwnd].rect[1] = m_target[3]
    /\ windows[m_hwnd].rect[4] - windows[m_hwnd].rect[2] = m_target[4]

PositioningCalls ==
    SelectSeq(calls, LAMBDA c : c[1] \in {"SetWindowPos(SWP_NOSIZE)",
                                          "SetWindowPos", "MoveWindow"})

ResizeCalls == SelectSeq(calls, LAMBDA c : c[1] = "SetWindowPos(SWP_NOMOVE)")

\* C20: one relocation of a normal window issues a single positioning call
\* and after it at most one resize call; no second positioning call
\* follows a failed one.
C20_SinglePositioningCall ==
    NormalPlacementRan =>
        /\ Len(PositioningCalls) = 1
        /\ Len(ResizeCalls) <= 1


\* handles the run issued a mutating call against
Touched == { calls[i][2] : i \in 1..Len(calls) }

\* C24: every mutating call of a run is issued against the window the run
\* captured and checked, and a window the run leaves maximized is the
\* captured window, which was maximized when it was captured.
C24_ActsOnCapturedWindow ==
    \A h \in Touched :
        /\ m_window_info # None
        /\ h = m_window_info.hwnd
        /\ ~m_excluded
        /\ windows[h].showCmd = SW_SHOWMAXIMIZED => m_window_info.is_maximized


\* the run has read the monitor list it finds the current and the next
\* monitor in
Planned ==
    \/ pc \notin {"off", "idle", "capture", "exclude", "plan", "done"}
    \/ pc = "done" /\ returned_at \notin {"no_window", "excluded"}

\* C26: the monitor list the fullscreen judgment of a run was made on and
\* the list the run finds the current and the next monitor in are the same.
C26_OneSnapshotPerRun ==
    (Planned /\ m_judged_on.read) => m_monitors = m_judged_on.value

---------------------------------------------------------------------------
(* SettingsManager.validate_hotkey and _parse_hotkey_for_pynput            *)
(*                                                                         *)
(* A hotkey string is a sequence of pieces: a name (a run of characters    *)
(* other than '+' and whitespace), the character "+" or a whitespace       *)
(* character.  The names of the driver are such that no two of them        *)
(* written one after the other spell an allowed modifier or key, so a part *)
(* of the string is an allowed word exactly when it is one piece that is.  *)

valid_modifiers == {"Ctrl", "Alt", "Shift", "Win"}

valid_function_keys ==
    {"F1", "F2", "F3", "F4", "F5", "F6", "F7", "F8", "F9", "F10", "F11", "F12"}

valid_letter_keys ==
    {"A", "B", "C", "D", "E", "F", "G", "H", "I", "J", "K", "L", "M",
     "N", "O", "P", "Q", "R", "S", "T", "U", "V", "W", "X", "Y", "Z"}

valid_number_keys == {"0", "1", "2", "3", "4", "5", "6", "7", "8", "9"}

valid_special_keys ==
    {"Space", "Tab", "Enter", "Esc", "Delete", "Insert", "Home", "End",
     "PageUp", "PageDown"}

\* hotkey.split('+')
RECURSIVE split(_)
split(s) ==
    IF \A i \in 1..Len(s) : s[i] # "+"
    THEN <<s>>
    ELSE LET i == CHOOSE k \in 1..Len(s) :
                      s[k] = "+" /\ \A j \in 1..(k - 1) : s[j] # "+"
         IN  <<SubSeq(s, 1, i - 1)>> \o split(SubSeq(s, i + 1, Len(s)))

\* a part of the string as a word: the name it consists of, "" for an empty
\* part, and a word outside every allow-list for anything else
Word(part) ==
    IF part = <<>> THEN ""
    ELSE IF Len(part) = 1 THEN part[1]
    ELSE "?"

Rejected(error) == [valid |-> FALSE, error |-> error, parsed |-> None]

validate_hotkey_DuplicatesPass(hotkey) ==
    IF hotkey = <<>>
    THEN Rejected("Hotkey cannot be empty")
    ELSE LET stripped == strip(hotkey)
             raw == split(stripped)
             parts == [i \in 1..Len(raw) |-> Word(strip(raw[i]))]
             main_key == parts[Len(parts)]
             modifiers == SubSeq(parts, 1, Len(parts) - 1)
         IN  IF \E i \in 1..Len(modifiers) : modifiers[i] \notin valid_modifiers
             THEN Rejected("Invalid modifier")
             ELSE IF main_key \notin (valid_function_keys \cup valid_letter_keys
                                      \cup valid_number_keys \cup valid_special_keys)
             THEN Rejected("Invalid key")
             ELSE [valid |-> TRUE, error |-> "None",
                   parsed |-> [main_key |-> main_key, modifiers |-> modifiers,
                               full_hotkey |-> stripped]]

\* validate_hotkey(hotkey) for a string; `if not parts` never holds, split
\* returns at least one part
validate_hotkey(hotkey) ==
    IF hotkey = <<>>
    THEN Rejected("Hotkey cannot be empty")
    ELSE LET stripped == strip(hotkey)
             raw == split(stripped)
             parts == [i \in 1..Len(raw) |-> Word(strip(raw[i]))]
             main_key == parts[Len(parts)]
             modifiers == SubSeq(parts, 1, Len(parts) - 1)
         IN  IF \E i \in 1..Len(modifiers) : modifiers[i] \notin valid_modifiers
             THEN Rejected("Invalid modifier")
             ELSE IF main_key \notin (valid_function_keys \cup valid_letter_keys
                                      \cup valid_number_keys \cup valid_special_keys)
             THEN Rejected("Invalid key")
             ELSE IF Len(modifiers) # Cardinality(Range(modifiers))
             THEN Rejected("Duplicate modifiers not allowed")
             ELSE [valid |-> TRUE, error |-> "None",
                   parsed |-> [main_key |-> main_key, modifiers |-> modifiers,
                               full_hotkey |-> stripped]]

pynput_modifiers ==
    [Ctrl |-> "<ctrl>", Alt |-> "<alt>", Shift |-> "<shift>", Win |-> "<cmd>"]

pynput_special_keys ==
    [Space |-> "<space>", Tab |-> "<tab>", Enter |-> "<enter>", Esc |-> "<esc>",
     Delete |-> "<delete>", Insert |-> "<insert>", Home |-> "<home>",
     End |-> "<end>", PageUp |-> "<page_up>", PageDown |-> "<page_down>"]

\* _parse_hotkey_for_pynput(parsed_hotkey): the parts that '+'.join puts
\* together, <<>> for None.  A modifier the function does not know is left
\* out; a function key becomes <<"f", its name>>, a letter <<"lower", it>>.
_parse_hotkey_for_pynput(parsed_hotkey) ==
    LET main_key == parsed_hotkey.main_key
        known == SelectSeq(parsed_hotkey.modifiers,
                           LAMBDA x : x \in DOMAIN pynput_modifiers)
        pynput_parts == [i \in 1..Len(known) |-> <<pynput_modifiers[known[i]]>>]
    IN  IF main_key \in valid_function_keys
        THEN pynput_parts \o << <<"f", main_key>> >>
        ELSE IF main_key \in valid_letter_keys
        THEN pynput_parts \o << <<"lower", main_key>> >>
        ELSE IF main_key \in valid_number_keys
        THEN pynput_parts \o << <<main_key>> >>
        ELSE IF main_key \in DOMAIN pynput_special_keys
        THEN pynput_parts \o << <<pynput_special_keys[main_key]>> >>
        ELSE <<>>

---------------------------------------------------------------------------
(* Driver of the hotkey validation: a string is chosen, validated, and a   *)
(* valid one is converted for the listener.                                *)

MaxHotkeyLen == 5   \* pieces of a hotkey string

HotkeyPieces == {"Ctrl", "Alt", "F9", "A", "a", "+", " "}

RECURSIVE TextsUpTo(_)
TextsUpTo(n) ==
    IF n = 0 THEN { <<>> }
    ELSE TextsUpTo(n - 1) \cup
         { Append(t, c) : t \in { u \in TextsUpTo(n - 1) : Len(u) = n - 1 },
                          c \in HotkeyPieces }

HotkeyInit ==
    /\ h_pc = "input"
    /\ h_text \in TextsUpTo(MaxHotkeyLen)
    /\ h_validation = None
    /\ h_combo = <<>>
    /\ GeomIdle
    /\ ExclIdle
    /\ NextIdle
    /\ PipeIdle
    /\ LifeIdle
    /\ RestIdle

ValidateHotkey ==
    /\ h_pc = "input"
    /\ h_validation' = validate_hotkey(h_text)
    /\ h_pc' = "validated"
    /\ UNCHANGED <<h_text, h_combo>>
    /\ UNCHANGED <<geomVars, exclVars, nextVars, pipeVars, lifeVars, restVars>>

ParseHotkey ==
    /\ h_pc = "validated"
    /\ h_validation.valid
    /\ h_combo' = _parse_hotkey_for_pynput(h_validation.parsed)
    /\ h_pc' = "parsed"
    /\ UNCHANGED <<h_text, h_validation>>
    /\ UNCHANGED <<geomVars, exclVars, nextVars, pipeVars, lifeVars, restVars>>

HotkeyNext == ValidateHotkey \/ ParseHotkey

SpecHotkey == HotkeyInit /\ [][HotkeyNext]_vars

---------------------------------------------------------------------------
(* Properties of the hotkey validation (under SpecHotkey) *)

Validated == h_pc \in {"validated", "parsed"}

AllowedKeys ==
    valid_function_keys \cup valid_letter_keys \cup valid_number_keys
    \cup valid_special_keys

\* text is modifiers and a key with a "+" between each two, nothing else
InGrammar(text) ==
    /\ Len(text) % 2 = 1
    /\ text[Len(text)] \in AllowedKeys
    /\ \A i \in 1..(Len(text) - 1) :
           IF i % 2 = 0 THEN text[i] = "+" ELSE text[i] \in valid_modifiers
    /\ \A i, j \in 1..(Len(text) - 1) :
           (i % 2 = 1 /\ j % 2 = 1 /\ i # j) => text[i] # text[j]

\* the piece at i has only whitespace between itself and the start, the end
\* or a "+" on one side
AtEdge(text, i) ==
    \/ \A j \in 1..i : text[j] \in Whitespace
    \/ \A j \in i..Len(text) : text[j] \in Whitespace
    \/ \E k \in 1..(i - 1) :
           text[k] = "+" /\ \A j \in (k + 1)..i : text[j] \in Whitespace
    \/ \E k \in (i + 1)..Len(text) :
           text[k] = "+" /\ \A j \in i..(k - 1) : text[j] \in Whitespace

\* text without the whitespace around it and around its '+' signs
Trimmed(text) ==
    SelectSeq([i \in 1..Len(text) |->
                   IF text[i] \in Whitespace /\ AtEdge(text, i)
                   THEN "" ELSE text[i]],
              LAMBDA x : x # "")

RejectedCleanly ==
    ~h_validation.valid =>
        /\ h_validation.error # "None"
        /\ h_validation.parsed = None

\* C18: validate_hotkey accepts a string exactly when it is a '+'-separated
\* list of distinct modifiers followed by one allowed key, and rejects every
\* other string with an error and no parsed value.
C18_HotkeyGrammar ==
    Validated =>
        /\ h_validation.valid <=> InGrammar(h_text)
        /\ RejectedCleanly

\* C18 as amended: the same with whitespace around the string and around
\* each '+'-separated part disregarded; an accepted string is parsed into
\* its key and modifiers.
C18_HotkeyGrammarTrimmed ==
    Validated =>
        /\ h_validation.valid <=> InGrammar(Trimmed(h_text))
        /\ RejectedCleanly
        /\ h_validation.valid =>
               LET t == Trimmed(h_text)
               IN  /\ h_validation.error = "None"
                   /\ h_validation.parsed.main_key = t[Len(t)]
                   /\ Len(h_validation.parsed.modifiers) = (Len(t) - 1) \div 2
                   /\ \A i \in 1..((Len(t) - 1) \div 2) :
                          h_validation.parsed.modifiers[i] = t[2 * i - 1]

\* a string with a modifier, a key and whitespace was accepted
C18_Witness ==
    /\ Validated
    /\ h_validation.valid
    /\ Len(h_validation.parsed.modifiers) = 1
    /\ h_text # Trimmed(h_text)

---------------------------------------------------------------------------
(* The lifecycle: start, stop, reload_config, the hotkey listeners and the *)
(* callers of get_monitors                                                 *)
(*                                                                         *)
(* A listener is a pynput GlobalHotKeys object with a thread of its own.   *)
(* It is "created" when constructed, "active" once start() returned and    *)
(* "stopped" after stop(); an active listener calls                        *)
(* move_active_window_to_next_monitor on its thread for a key press, one   *)
(* call at a time.  stop() does not wait for a call in flight.  run is the *)
(* position of the listener's call: "none", "started" or "enumerating" (in *)
(* get_monitors, past the cache check).                                    *)

MaxListeners == 2   \* listeners that exist at a time

MaxRuns == 2        \* key presses in one behaviour

Slots == 1..MaxListeners

FreeListener == [state |-> "free", run |-> "none"]

\* a listener that nothing refers to, that delivers no key press and has no
\* call in flight is gone
Gone(ls, ref, i) ==
    \/ ls[i].state = "free"
    \/ i # ref /\ ls[i].state \in {"created", "stopped"} /\ ls[i].run = "none"

\* Listeners that differ in their slot only behave alike, so the slots are
\* kept in one order: the listener self.hotkey_listener refers to comes
\* first, the others follow by state and position of their call.
Rank(l) ==
    (IF l.state = "active" THEN 0 ELSE 3)
    + (IF l.run = "none" THEN 0 ELSE IF l.run = "started" THEN 1 ELSE 2)

RECURSIVE Ordered(_, _)
Ordered(ls, among) ==
    IF among = {}
    THEN <<>>
    ELSE LET i == CHOOSE k \in among :
                      \A j \in among : Rank(ls[k]) <= Rank(ls[j])
         IN  <<ls[i]>> \o Ordered(ls, among \ {i})

Collected(ls, ref) ==
    LET kept == (IF ref = 0 THEN <<>> ELSE <<ls[ref]>>)
                \o Ordered(ls, { i \in Slots : i # ref /\ ~Gone(ls, ref, i) })
    IN  [i \in Slots |-> IF i <= Len(kept) THEN kept[i] ELSE FreeListener]

\* the slot of the listener self.hotkey_listener refers to, once collected
Reference(ref) == IF ref = 0 THEN 0 ELSE 1

HasFreeSlot(ls) == \E i \in Slots : ls[i].state = "free"

FreeSlot(ls) ==
    CHOOSE i \in Slots :
        ls[i].state = "free" /\ \A j \in 1..(i - 1) : ls[j].state # "free"

\* _stop_hotkey_listener: the possible <<hotkey_listener, listeners, whether
\* stop() raised>>.  When stop() raises the reference is kept, and the
\* listener has stopped or has not.
_stop_hotkey_listener(ref, ls) ==
    IF ref = 0
    THEN { [hotkey_listener |-> 0, listeners |-> ls, raised |-> FALSE] }
    ELSE { [hotkey_listener |-> 0,
            listeners |-> [ls EXCEPT ![ref].state = "stopped"],
            raised |-> FALSE],
           [hotkey_listener |-> ref,
            listeners |-> [ls EXCEPT ![ref].state = "stopped"],
            raised |-> TRUE],
           [hotkey_listener |-> ref, listeners |-> ls, raised |-> TRUE] }

\* _start_hotkey_listener: the possible [value returned, hotkey_listener,
\* listeners, install].  An invalid hotkey or one that cannot be converted
\* returns False; otherwise GlobalHotKeys(...) raises, or the new listener
\* is assigned and its start() raises, or it is assigned and started.
\* Whatever self.hotkey_listener referred to before stays as it is.
_start_hotkey_listener(ref, ls, hotkey) ==
    LET validation == validate_hotkey(hotkey)
        unchanged == [value |-> FALSE, hotkey_listener |-> ref, listeners |-> ls,
                      install |-> "none"]
    IN  IF ~validation.valid
        THEN { unchanged }
        ELSE IF _parse_hotkey_for_pynput(validation.parsed) = <<>>
        THEN { unchanged }
        ELSE LET new == FreeSlot(ls)
             IN  { [unchanged EXCEPT !.install = "raised"],
                   [value |-> FALSE, hotkey_listener |-> new,
                    listeners |-> [ls EXCEPT ![new].state = "created"],
                    install |-> "raised"],
                   [value |-> TRUE, hotkey_listener |-> new,
                    listeners |-> [ls EXCEPT ![new].state = "active"],
                    install |-> "done"] }

\* the fields a lifecycle call may change
Fields == <<is_running, hotkey_listener, listeners, monitors_cache, cache_timestamp>>

\* the record of a lifecycle call that returns in this step
Op(name, value, stop_raised, install) ==
    [name |-> name, value |-> value, was_running |-> is_running,
     stop_raised |-> stop_raised, install |-> install]

\* the record of a get_monitors call that returns with outcome o
Call(o) ==
    [name |-> "get_monitors", value |-> o.value, enumerated |-> o.enumerated,
     failed |-> o.failed]

\* a call of get_monitors leaves the cache and timestamp of outcome o
MonitorsCalled(o) ==
    /\ monitors_cache' = o.cache
    /\ cache_timestamp' = o.timestamp
    /\ last_enumeration' =
           IF o.enumerated /\ ~o.failed
           THEN [name |-> "enumeration", value |-> o.value]
           ELSE last_enumeration

\* start(): the possible outcomes.  monitors is the outcome of the
\* get_monitors call made by is_multi_monitor_setup, NoOp when the call is
\* not reached.
start_Restarts(running, enabled, ref, ls, hotkey, cache, timestamp, current_time, displays) ==
    IF ~enabled
    THEN { [value |-> FALSE, is_running |-> running, hotkey_listener |-> ref,
            listeners |-> ls, monitors |-> NoOp, install |-> "none"] }
    ELSE { [value |-> t.value, is_running |-> t.value \/ running,
            hotkey_listener |-> Reference(t.hotkey_listener),
            listeners |-> Collected(t.listeners, t.hotkey_listener),
            monitors |-> o, install |-> t.install] :
             o \in MonitorsOutcomes(cache, timestamp, current_time, displays),
             t \in _start_hotkey_listener(ref, ls, hotkey) }

start(running, enabled, ref, ls, hotkey, cache, timestamp, current_time, displays) ==
    IF running
    THEN { [value |-> TRUE, is_running |-> TRUE, hotkey_listener |-> ref,
            listeners |-> ls, monitors |-> NoOp, install |-> "none"] }
    ELSE IF ~enabled
    THEN { [value |-> FALSE, is_running |-> FALSE, hotkey_listener |-> ref,
            listeners |-> ls, monitors |-> NoOp, install |-> "none"] }
    ELSE { [value |-> t.value, is_running |-> t.value,
            hotkey_listener |-> Reference(t.hotkey_listener),
            listeners |-> Collected(t.listeners, t.hotkey_listener),
            monitors |-> o, install |-> t.install] :
             o \in MonitorsOutcomes(cache, timestamp, current_time, displays),
             t \in _start_hotkey_listener(ref, ls, hotkey) }

\* stop(): the possible outcomes; the cache is cleared when the manager was
\* running
stop(running, ref, ls, cache) ==
    IF ~running
    THEN { [is_running |-> FALSE, hotkey_listener |-> ref, listeners |-> ls,
            cache |-> cache, stop_raised |-> FALSE] }
    ELSE { [is_running |-> FALSE, hotkey_listener |-> Reference(u.hotkey_listener),
            listeners |-> Collected(u.listeners, u.hotkey_listener),
            cache |-> <<>>, stop_raised |-> u.raised] :
             u \in _stop_hotkey_listener(ref, ls) }

\* reload_config(): the possible outcomes.  The cache is cleared; when the
\* manager is running the listener is stopped and started again.  Reading
\* the settings and setting the logger level are taken not to raise.
reload_config_ReportsSuccess(running, ref, ls, hotkey) ==
    IF running
    THEN UNION { { [value |-> TRUE,
                    hotkey_listener |-> Reference(t.hotkey_listener),
                    listeners |-> Collected(t.listeners, t.hotkey_listener),
                    stop_raised |-> u.raised, install |-> t.install] :
                     t \in _start_hotkey_listener(u.hotkey_listener,
                                                  u.listeners, hotkey) } :
                 u \in _stop_hotkey_listener(ref, ls) }
    ELSE { [value |-> TRUE, hotkey_listener |-> ref, listeners |-> ls,
            stop_raised |-> FALSE, install |-> "none"] }

reload_config(running, ref, ls, hotkey) ==
    IF running
    THEN UNION { { [value |-> t.value,
                    hotkey_listener |-> Reference(t.hotkey_listener),
                    listeners |-> Collected(t.listeners, t.hotkey_listener),
                    stop_raised |-> u.raised, install |-> t.install] :
                     t \in _start_hotkey_listener(u.hotkey_listener,
                                                  u.listeners, hotkey) } :
                 u \in _stop_hotkey_listener(ref, ls) }
    ELSE { [value |-> TRUE, hotkey_listener |-> ref, listeners |-> ls,
            stop_raised |-> FALSE, install |-> "none"] }

---------------------------------------------------------------------------
(* Driver of the lifecycle: one thread calls start, stop, reload_config    *)
(* and get_monitors, the user changes the hotkey setting and presses the   *)
(* hotkey, and time passes.                                                *)

HotkeyChoices == { <<"Ctrl", "+", "F9">>, <<"F13">> }

\* one display is attached; an enumeration lists it, lists nothing (its
\* processing raised) or fails
LifeDisplays == AttachedDisplays(1)

LifeInit ==
    /\ attached_displays = LifeDisplays
    /\ windows = <<>>
    /\ foreground = 0
    /\ now = 0
    /\ monitors_cache = <<>>
    /\ cache_timestamp = 0
    /\ setting_exclude_fullscreen = TRUE
    /\ pc = "off"
    /\ presses = 0
    /\ RunReset
    /\ is_running = FALSE
    /\ hotkey_listener = 0
    /\ listeners = [i \in Slots |-> FreeListener]
    /\ setting_hotkey \in HotkeyChoices
    /\ setting_enabled \in BOOLEAN
    /\ api_pc = "idle"
    /\ presses_left = MaxRuns
    /\ returned = NoOp
    /\ last_enumeration = NoOp
    /\ GeomIdle
    /\ ExclIdle
    /\ NextIdle
    /\ HotkeyIdle
    /\ RestIdle

\* what a step of the lifecycle never changes
lifeFrame == <<attached_displays, windows, foreground, setting_exclude_fullscreen,
               runVars, geomVars, exclVars, nextVars, hotkeyVars, restVars>>

\* Time passes.  The clock is read at the start of get_monitors only, and
\* an enumeration under way is over before the clock moves on.
LifeTick ==
    /\ api_pc = "idle"
    /\ now < MaxTime
    /\ \A i \in Slots : listeners[i].run # "enumerating"
    /\ now' = now + 1
    /\ returned' = NoOp
    /\ UNCHANGED <<is_running, hotkey_listener, listeners, setting_hotkey,
                   setting_enabled, api_pc, presses_left, last_enumeration>>
    /\ UNCHANGED <<fieldVars, lifeFrame>>

\* the hotkey setting is written
SetHotkey ==
    /\ api_pc = "idle"
    /\ \E h \in HotkeyChoices \ {setting_hotkey} : setting_hotkey' = h
    /\ returned' = NoOp
    /\ UNCHANGED <<is_running, hotkey_listener, listeners, setting_enabled, api_pc,
                   presses_left, last_enumeration>>
    /\ UNCHANGED <<now, monitors_cache, cache_timestamp, lifeFrame>>

Start ==
    /\ api_pc = "idle"
    /\ HasFreeSlot(listeners)
    /\ \E r \in start(is_running, setting_enabled, hotkey_listener, listeners,
                      setting_hotkey, monitors_cache, cache_timestamp, now,
                      attached_displays) :
           /\ is_running' = r.is_running
           /\ hotkey_listener' = r.hotkey_listener
           /\ listeners' = r.listeners
           /\ IF r.monitors = NoOp
              THEN UNCHANGED <<monitors_cache, cache_timestamp, last_enumeration>>
              ELSE MonitorsCalled(r.monitors)
           /\ returned' = Op("start", r.value, FALSE, r.install)
    /\ UNCHANGED <<setting_hotkey, setting_enabled, api_pc, presses_left>>
    /\ UNCHANGED <<now, lifeFrame>>

Stop ==
    /\ api_pc = "idle"
    /\ \E r \in stop(is_running, hotkey_listener, listeners, monitors_cache) :
           /\ is_running' = r.is_running
           /\ hotkey_listener' = r.hotkey_listener
           /\ listeners' = r.listeners
           /\ monitors_cache' = r.cache
           /\ returned' = Op("stop", "None", r.stop_raised, "none")
    /\ UNCHANGED <<setting_hotkey, setting_enabled, api_pc, presses_left,
                   last_enumeration>>
    /\ UNCHANGED <<now, cache_timestamp, lifeFrame>>

ReloadConfig ==
    /\ api_pc = "idle"
    /\ HasFreeSlot(listeners)
    /\ \E r \in reload_config(is_running, hotkey_listener, listeners,
                              setting_hotkey) :
           /\ monitors_cache' = <<>>
           /\ hotkey_listener' = r.hotkey_listener
           /\ listeners' = r.listeners
           /\ returned' = Op("reload_config", r.value, r.stop_raised, r.install)
    /\ UNCHANGED <<is_running, setting_hotkey, setting_enabled, api_pc,
                   presses_left, last_enumeration>>
    /\ UNCHANGED <<now, cache_timestamp, lifeFrame>>

\* get_monitors() called on the thread of the lifecycle calls
GetMonitors ==
    /\ api_pc = "idle"
    /\ \E o \in MonitorsOutcomes(monitors_cache, cache_timestamp, now,
                                 attached_displays) :
           /\ MonitorsCalled(o)
           /\ returned' = Call(o)
    /\ UNCHANGED <<is_running, hotkey_listener, listeners, setting_hotkey,
                   setting_enabled, api_pc, presses_left>>
    /\ UNCHANGED <<now, lifeFrame>>

\* the hotkey is pressed: every active listener that has no call in flight
\* starts move_active_window_to_next_monitor on its thread; a listener with
\* a call in flight handles the press after that call
KeyPress ==
    /\ api_pc = "idle"
    /\ presses_left > 0
    /\ \E i \in Slots : listeners[i].state = "active" /\ listeners[i].run = "none"
    /\ presses_left' = presses_left - 1
    /\ listeners' = Collected([i \in Slots |->
                        IF listeners[i].state = "active" /\ listeners[i].run = "none"
                        THEN [listeners[i] EXCEPT !.run = "started"]
                        ELSE listeners[i]], hotkey_listener)
    /\ returned' = NoOp
    /\ UNCHANGED <<is_running, hotkey_listener, setting_hotkey, setting_enabled,
                   api_pc, last_enumeration>>
    /\ UNCHANGED <<now, monitors_cache, cache_timestamp, lifeFrame>>

\* the call on listener i's thread reaches get_monitors: the clock is read
\* and the cache checked; with a cache that serves, get_monitors returns
\* and the call goes on to its end
RunGetMonitors(i) ==
    /\ listeners[i].run = "started"
    /\ IF CacheServes(monitors_cache, cache_timestamp, now)
       THEN /\ \E o \in MonitorsOutcomes(monitors_cache, cache_timestamp, now,
                                         attached_displays) :
                   /\ MonitorsCalled(o)
                   /\ returned' = Call(o)
            /\ listeners' = Collected([listeners EXCEPT ![i].run = "none"],
                                      hotkey_listener)
       ELSE /\ listeners' = Collected([listeners EXCEPT ![i].run = "enumerating"],
                                      hotkey_listener)
            /\ returned' = NoOp
            /\ UNCHANGED <<monitors_cache, cache_timestamp, last_enumeration>>
    /\ UNCHANGED <<is_running, hotkey_listener, setting_hotkey, setting_enabled,
                   api_pc, presses_left>>
    /\ UNCHANGED <<now, lifeFrame>>

\* the enumeration on listener i's thread; get_monitors returns and the
\* call goes on to its end
RunEnumerate(i) ==
    /\ listeners[i].run = "enumerating"
    /\ \E o \in EnumerationOutcomes(monitors_cache, cache_timestamp, now,
                                    attached_displays) :
           /\ MonitorsCalled(o)
           /\ returned' = Call(o)
    /\ listeners' = Collected([listeners EXCEPT ![i].run = "none"],
                              hotkey_listener)
    /\ UNCHANGED <<is_running, hotkey_listener, setting_hotkey, setting_enabled,
                   api_pc, presses_left>>
    /\ UNCHANGED <<now, lifeFrame>>

LifeNext ==
    \/ LifeTick
    \/ SetHotkey
    \/ Start
    \/ Stop
    \/ ReloadConfig
    \/ GetMonitors
    \/ KeyPress
    \/ \E i \in Slots : RunGetMonitors(i)
    \/ \E i \in Slots : RunEnumerate(i)

SpecLife == LifeInit /\ [][LifeNext]_vars

---------------------------------------------------------------------------
(* Properties of the lifecycle (under SpecLife) *)

\* a call of get_monitors returns in this step
MonitorsCallReturns == returned'.name = "get_monitors"

\* the clock is within cache_duration of the last enumeration that was
\* cached
WithinWindow ==
    last_enumeration # NoOp /\ now - cache_timestamp < cache_duration

\* C11: a get_monitors call within one TTL window of an enumeration returns
\* the sequence that enumeration cached and does not enumerate, whatever
\* start, stop, reload_config or another caller did in between and whatever
\* was enumerated; a call after the window enumerates.
C11_CacheWindow ==
    [][MonitorsCallReturns =>
           IF WithinWindow
           THEN /\ ~returned'.enumerated
                /\ returned'.value = last_enumeration.value
           ELSE returned'.enumerated]_vars

\* C12: when the enumeration fails, get_monitors returns an empty sequence
\* and leaves the cache and its timestamp as they were, so a cache that did
\* not serve this call serves no later one either.
C12_FailureKeepsCache ==
    [][(MonitorsCallReturns /\ returned'.failed) =>
           /\ returned'.value = <<>>
           /\ monitors_cache' = monitors_cache
           /\ cache_timestamp' = cache_timestamp
           /\ last_enumeration' = last_enumeration]_vars

\* an enumeration failed while an expired list was in the cache: the call
\* returned nothing and the list is still there
C12_Witness ==
    /\ returned.name = "get_monitors"
    /\ returned.failed
    /\ returned.value = <<>>
    /\ monitors_cache # <<>>
    /\ now - cache_timestamp >= cache_duration

InFlight == { i \in Slots : listeners[i].run # "none" }

\* C13: no two calls of move_active_window_to_next_monitor are in flight at
\* the same time.
C13_RunsNeverOverlap == Cardinality(InFlight) <= 1

\* C14: start while running returns true and leaves the running flag, the
\* listener and the cache as they are; stop while not running changes
\* nothing; after a start that returned true the manager is running and
\* after a stop it is not, so the second of two calls is such a call.
C14_StartStopIdempotent ==
    [][/\ (returned'.name = "start" /\ is_running) =>
              (returned'.value = TRUE /\ Fields' = Fields)
       /\ (returned'.name = "stop" /\ ~is_running) => Fields' = Fields
       /\ (returned'.name = "start" /\ returned'.value = TRUE) => is_running'
       /\ returned'.name = "stop" => ~is_running']_vars

\* start was called on a running manager with a listener and a cached list
C14_Witness ==
    /\ returned.name = "start"
    /\ returned.was_running
    /\ returned.value = TRUE
    /\ is_running
    /\ hotkey_listener # 0
    /\ monitors_cache # <<>>

Active == { i \in Slots : listeners[i].state = "active" }

\* C15: at most one hotkey listener is active.
C15_OneListener == Cardinality(Active) <= 1

\* C16: reload_config on a running manager with an invalid hotkey returns
\* false and leaves no listener active; with a valid hotkey (and a listener
\* that can be installed) it returns true with the new listener active; on
\* a manager that is not running it returns true and installs nothing.
C16_ReloadConfig ==
    [][returned'.name = "reload_config" =>
           /\ (is_running /\ ~validate_hotkey(setting_hotkey).valid) =>
                  (returned'.value = FALSE /\ Active' = {})
           /\ (is_running /\ validate_hotkey(setting_hotkey).valid
                          /\ returned'.install # "raised") =>
                  /\ returned'.value = TRUE
                  /\ hotkey_listener' # 0
                  /\ hotkey_listener' \in Active'
           /\ ~is_running =>
                  /\ returned'.value = TRUE
                  /\ hotkey_listener' = hotkey_listener
                  /\ listeners' = listeners]_vars

\* C23: a running manager has a hotkey listener installed.
C23_RunningHasListener == is_running => hotkey_listener # 0

\* C23, amended: a running manager comes to be without a listener only by a
\* reload_config that returned false, and stays so until a listener is
\* installed or the manager is stopped; a start that finds the manager not
\* running returns true only with a listener installed.
C23_RunningHasListenerUnlessReloadFailed ==
    [][/\ (is_running' /\ hotkey_listener' = 0) =>
              /\ is_running
              /\ \/ hotkey_listener = 0
                 \/ returned'.name = "reload_config" /\ returned'.value = FALSE
       /\ (returned'.name = "start" /\ ~is_running /\ returned'.value = TRUE) =>
              (is_running' /\ hotkey_listener' # 0)]_vars

\* reload_config failed on a running manager, which now has no listener
C23_Witness ==
    /\ returned.name = "reload_config"
    /\ returned.value = FALSE
    /\ returned.was_running
    /\ is_running
    /\ hotkey_listener = 0
    /\ Active = {}

---------------------------------------------------------------------------
(* DPI detection: _get_dpi_for_monitor and the scale factor of a monitor   *)
(* entry                                                                   *)

\* Strategy 1, ctypes.windll.shcore.GetDpiForMonitor: the call raises, or
\* returns an error code, or returns S_OK (0) with the two values it wrote.
\* The values are taken as they are.
FromGetDpiForMonitor(answer) ==
    IF answer.outcome = "ok" THEN answer.dpi ELSE <<>>

\* Strategy 2, the device context: GetMonitorInfo, CreateDC, GetDeviceCaps
\* or DeleteDC raises, or no device context is created, or the two
\* capabilities are read; they count when both are positive.
FromDeviceContext(answer) ==
    IF answer.outcome = "caps" /\ answer.dpi[1] > 0 /\ answer.dpi[2] > 0
    THEN answer.dpi
    ELSE <<>>

\* Strategy 3, the estimate from the monitor's resolution; GetMonitorInfo
\* may raise.
FromResolution(answer) ==
    IF answer.outcome = "raised"
    THEN <<>>
    ELSE LET width == answer.size[1]
             height == answer.size[2]
             estimated_dpi ==
                 IF width = 2560 /\ height = 1440 THEN 96
                 ELSE IF width = 1920 /\ height = 1080 THEN 96
                 ELSE IF width < 1600 /\ height < 1000 THEN 168
                 ELSE IF width = 3440 /\ height = 1440 THEN 96
                 ELSE 96
         IN  <<estimated_dpi, estimated_dpi>>

\* _get_dpi_for_monitor: the first strategy that returns, else (96, 96)
_get_dpi_for_monitor(host) ==
    IF FromGetDpiForMonitor(host.GetDpiForMonitor) # <<>>
    THEN FromGetDpiForMonitor(host.GetDpiForMonitor)
    ELSE IF FromDeviceContext(host.device_context) # <<>>
    THEN FromDeviceContext(host.device_context)
    ELSE IF FromResolution(host.monitor_info) # <<>>
    THEN FromResolution(host.monitor_info)
    ELSE <<BaseDpi, BaseDpi>>

\* 'scale_factor': (dpi_x / 96.0, dpi_y / 96.0) of the monitor entry
scale_factor(dpi) == <<Ratio(dpi[1], BaseDpi), Ratio(dpi[2], BaseDpi)>>

(* Driver *)

\* values a DPI call of the host may write or return
DpiValues == {0, 96, 120, 144}

\* monitor resolutions
Resolutions ==
    { <<2560, 1440>>, <<1920, 1080>>, <<1366, 768>>, <<3440, 1440>>, <<3840, 2160>> }

DpiAnswers(outcomes, values) ==
    { [outcome |-> o, dpi |-> <<0, 0>>] : o \in outcomes }
        \cup { [outcome |-> "ok", dpi |-> <<x, y>>] : x \in values, y \in values }

HostAnswers ==
    [GetDpiForMonitor : DpiAnswers({"raised", "failed"}, DpiValues),
     device_context :
         { [outcome |-> IF a.outcome = "ok" THEN "caps" ELSE a.outcome, dpi |-> a.dpi] :
               a \in DpiAnswers({"raised", "no_hdc"}, DpiValues) },
     monitor_info :
         { [outcome |-> "raised", size |-> <<0, 0>>] }
             \cup { [outcome |-> "info", size |-> r] : r \in Resolutions }]

DpiInit ==
    /\ k_pc = "input"
    /\ k_host \in HostAnswers
    /\ k_dpi = <<>>
    /\ k_scale_factor = <<>>
    /\ GeomIdle
    /\ ExclIdle
    /\ NextIdle
    /\ PipeIdle
    /\ HotkeyIdle
    /\ LifeIdle
    /\ RaceIdle
    /\ TimerIdle

\* get_monitors asks for the DPI of the enumerated monitor
DetectDpi ==
    /\ k_pc = "input"
    /\ k_dpi' = _get_dpi_for_monitor(k_host)
    /\ k_pc' = "detected"
    /\ UNCHANGED <<k_host, k_scale_factor>>
    /\ UNCHANGED <<geomVars, exclVars, nextVars, pipeVars, hotkeyVars, lifeVars, raceVars, timerVars>>

\* get_monitors builds the monitor entry
BuildEntry ==
    /\ k_pc = "detected"
    /\ k_scale_factor' = scale_factor(k_dpi)
    /\ k_pc' = "built"
    /\ UNCHANGED <<k_host, k_dpi>>
    /\ UNCHANGED <<geomVars, exclVars, nextVars, pipeVars, hotkeyVars, lifeVars, raceVars, timerVars>>

DpiNext == DetectDpi \/ BuildEntry

SpecDpi == DpiInit /\ [][DpiNext]_vars

(* Properties of the DPI detection (under SpecDpi) *)

\* C21: the monitor entry built from whatever the DPI strategies yield has a
\* scale factor greater than 0 on both axes.
C21_ScaleFactorPositive ==
    k_pc = "built" => (k_scale_factor[1][1] > 0 /\ k_scale_factor[2][1] > 0)

---------------------------------------------------------------------------
(* Driver of the geometry step of the pipeline on inconsistent geometry:   *)
(* work areas of no width or height, windows of no or negative size, sizes *)
(* far above and far below the work area.                                  *)

DegenerateA == Monitor(0, <<0, 0, 1920, 1080>>, <<0, 0, 0, 0>>, 96)

DegenerateB == Monitor(1, <<1920, 0, 3840, 1080>>, <<1920, 0, 1920, 1040>>, 96)

DegenerateC == Monitor(2, <<3840, 0, 5760, 1080>>, <<3840, 0, 5760, 0>>, 144)

DegenerateMonitors == GeomMonitors \cup {DegenerateA, DegenerateB, DegenerateC}

DegenerateRects(mon) ==
    LET W == WorkW(mon)
        H == WorkH(mon)
    IN  { << mon.work_area[1] + dx, mon.work_area[2] + dy,
             mon.work_area[1] + dx + w, mon.work_area[2] + dy + h >>
          : dx \in {0, 245}, dy \in {0, 104},
            w \in {-100, 0, 1, 150, W, 2 * W + 1},
            h \in {-100, 0, 142, H, 2 * H + 1} }

DegenerateInit ==
    /\ g_pc = "input"
    /\ g_current_monitor \in DegenerateMonitors
    /\ g_target_monitor \in
           { t \in DegenerateMonitors : t.index # g_current_monitor.index }
    /\ g_window_rect \in DegenerateRects(g_current_monitor)
    /\ g_target_rect = <<>>
    /\ g_back_rect = <<>>
    /\ ExclIdle
    /\ NextIdle
    /\ PipeIdle
    /\ HotkeyIdle
    /\ LifeIdle
    /\ RestIdle

\* Lines 674-692 of move_active_window_to_next_monitor: the target is
\* calculated and the pipeline goes on to _move_window, unless the
\* calculation raises and the handler of the pipeline returns False.
PlanPlacement ==
    /\ g_pc = "input"
    /\ \E t \in calculate_target_position(g_window_rect, g_current_monitor,
                                          g_target_monitor) :
           /\ g_target_rect' = t
           /\ g_pc' = IF IsRect(t) THEN "placement" ELSE "aborted"
    /\ UNCHANGED <<g_window_rect, g_current_monitor, g_target_monitor, g_back_rect>>
    /\ UNCHANGED <<exclVars, nextVars, pipeVars, hotkeyVars, lifeVars, restVars>>

DegenerateNext == PlanPlacement

SpecDegenerate == DegenerateInit /\ [][DegenerateNext]_vars

\* C22: whatever the geometry, calculate_target_position returns a
\* rectangle and the pipeline goes on to the placement; it never aborts.
C22_GeometryNeverAborts ==
    g_pc # "input" => (g_pc = "placement" /\ IsRect(g_target_rect))

---------------------------------------------------------------------------
(* start() on the thread Application.run launches against stop() called   *)
(* by Application.on_exit on another thread, one step per statement that   *)
(* reads or writes a field of the manager.  Nothing is locked.             *)

MaxRaceDisplays == 2   \* displays attached while the two calls run

RaceInit ==
    /\ attached_displays \in { AttachedDisplays(k) : k \in 1..MaxRaceDisplays }
    /\ windows = <<>>
    /\ foreground = 0
    /\ now = 0
    /\ monitors_cache = <<>>
    /\ cache_timestamp = 0
    /\ setting_exclude_fullscreen = TRUE
    /\ pc = "off"
    /\ presses = 0
    /\ RunReset
    /\ is_running = FALSE
    /\ hotkey_listener = 0
    /\ listeners = [i \in Slots |-> FreeListener]
    /\ setting_hotkey \in HotkeyChoices
    /\ setting_enabled \in BOOLEAN
    /\ api_pc = "off"
    /\ presses_left = 0
    /\ returned = NoOp
    /\ last_enumeration = NoOp
    /\ start_pc = "check"
    /\ start_value = "none"
    /\ stop_pc = "check"
    /\ GeomIdle
    /\ ExclIdle
    /\ NextIdle
    /\ HotkeyIdle
    /\ DpiIdle
    /\ TimerIdle

\* what no step of the two calls changes
raceFrame == <<attached_displays, windows, foreground, now, setting_exclude_fullscreen,
               runVars, geomVars, exclVars, nextVars, hotkeyVars, dpiVars, timerVars,
               setting_hotkey, setting_enabled, api_pc, presses_left, returned,
               last_enumeration>>

\* start() returns value
StartReturns(value) ==
    /\ start_pc' = "done"
    /\ start_value' = value

\* if self.is_running: return True
StartCheck ==
    /\ start_pc = "check"
    /\ IF is_running
       THEN StartReturns("True")
       ELSE start_pc' = "enabled" /\ UNCHANGED start_value
    /\ UNCHANGED <<is_running, hotkey_listener, listeners, monitors_cache,
                   cache_timestamp, stop_pc, raceFrame>>

\* the enabled setting is read
StartEnabled ==
    /\ start_pc = "enabled"
    /\ IF setting_enabled
       THEN start_pc' = "monitors" /\ UNCHANGED start_value
       ELSE StartReturns("False")
    /\ UNCHANGED <<is_running, hotkey_listener, listeners, monitors_cache,
                   cache_timestamp, stop_pc, raceFrame>>

\* is_multi_monitor_setup(): get_monitors()
StartMonitors ==
    /\ start_pc = "monitors"
    /\ \E o \in MonitorsOutcomes(monitors_cache, cache_timestamp, now,
                                 attached_displays) :
           /\ monitors_cache' = o.cache
           /\ cache_timestamp' = o.timestamp
    /\ start_pc' = "create"
    /\ UNCHANGED <<is_running, hotkey_listener, listeners, start_value, stop_pc,
                   raceFrame>>

\* _start_hotkey_listener up to the assignment of a new GlobalHotKeys to
\* self.hotkey_listener
StartCreate ==
    /\ start_pc = "create"
    /\ LET validation == validate_hotkey(setting_hotkey)
       IN  IF \/ ~validation.valid
              \/ _parse_hotkey_for_pynput(validation.parsed) = <<>>
           THEN /\ StartReturns("False")
                /\ UNCHANGED <<hotkey_listener, listeners>>
           ELSE \/ \* GlobalHotKeys(...) raises
                   /\ StartReturns("False")
                   /\ UNCHANGED <<hotkey_listener, listeners>>
                \/ /\ hotkey_listener' = FreeSlot(listeners)
                   /\ listeners' =
                          [listeners EXCEPT ![FreeSlot(listeners)].state = "created"]
                   /\ start_pc' = "launch"
                   /\ UNCHANGED start_value
    /\ UNCHANGED <<is_running, monitors_cache, cache_timestamp, stop_pc, raceFrame>>

\* self.hotkey_listener.start(): the field is read again
StartLaunch ==
    /\ start_pc = "launch"
    /\ IF hotkey_listener = 0
       THEN \* None has no start(): the handler of line 1050 returns False
            /\ StartReturns("False")
            /\ UNCHANGED listeners
       ELSE \/ /\ StartReturns("False")
               /\ UNCHANGED listeners
            \/ /\ listeners' = [listeners EXCEPT ![hotkey_listener].state = "active"]
               /\ start_pc' = "flag"
               /\ UNCHANGED start_value
    /\ UNCHANGED <<is_running, hotkey_listener, monitors_cache, cache_timestamp,
                   stop_pc, raceFrame>>

\* self.is_running = True; return True
StartFlag ==
    /\ start_pc = "flag"
    /\ is_running' = TRUE
    /\ StartReturns("True")
    /\ UNCHANGED <<hotkey_listener, listeners, monitors_cache, cache_timestamp,
                   stop_pc, raceFrame>>

\* if not self.is_running: return
StopCheck ==
    /\ stop_pc = "check"
    /\ stop_pc' = IF is_running THEN "flag" ELSE "done"
    /\ UNCHANGED <<is_running, hotkey_listener, listeners, monitors_cache,
                   cache_timestamp, start_pc, start_value, raceFrame>>

\* self.is_running = False
StopFlag ==
    /\ stop_pc = "flag"
    /\ is_running' = FALSE
    /\ stop_pc' = "listener"
    /\ UNCHANGED <<hotkey_listener, listeners, monitors_cache, cache_timestamp,
                   start_pc, start_value, raceFrame>>

\* _stop_hotkey_listener()
StopListener ==
    /\ stop_pc = "listener"
    /\ \E u \in _stop_hotkey_listener(hotkey_listener, listeners) :
           /\ hotkey_listener' = u.hotkey_listener
           /\ listeners' = u.listeners
    /\ stop_pc' = "cache"
    /\ UNCHANGED <<is_running, monitors_cache, cache_timestamp, start_pc,
                   start_value, raceFrame>>

\* self.monitors_cache = None
StopCache ==
    /\ stop_pc = "cache"
    /\ monitors_cache' = <<>>
    /\ stop_pc' = "done"
    /\ UNCHANGED <<is_running, hotkey_listener, listeners, cache_timestamp,
                   start_pc, start_value, raceFrame>>

RaceNext ==
    \/ StartCheck
    \/ StartEnabled
    \/ StartMonitors
    \/ StartCreate
    \/ StartLaunch
    \/ StartFlag
    \/ StopCheck
    \/ StopFlag
    \/ StopListener
    \/ StopCache

SpecRace == RaceInit /\ [][RaceNext]_vars

\* C27: once stop() has returned and start() has finished, no listener is
\* active and the manager is not running.
C27_StoppedAfterBoth ==
    (start_pc = "done" /\ stop_pc = "done") => (~is_running /\ Active = {})

---------------------------------------------------------------------------
(* TimerEngine: the scheduler threads created by start(), stop(), and the  *)
(* countdown threads.  Every access to countdown_timers is made under      *)
(* countdown_lock, so each locked block is one step; self.running is read  *)
(* and written without a lock, one step per access.                        *)

SecondsPerMinute == 60

TimerInit ==
    /\ TimerIdle
    /\ GeomIdle
    /\ ExclIdle
    /\ NextIdle
    /\ PipeIdle
    /\ HotkeyIdle
    /\ LifeIdle
    /\ DpiIdle
    /\ RaceIdle

timerFrame == <<geomVars, exclVars, nextVars, pipeVars, hotkeyVars, lifeVars,
                dpiVars, raceVars>>

\* start(): if self.running: return; otherwise a new thread is started
EngineStart ==
    /\ \E l \in Loops : scheduler_threads[l] = "none"
    /\ IF engine_running
       THEN UNCHANGED scheduler_threads
       ELSE LET l == CHOOSE l \in Loops : scheduler_threads[l] = "none"
            IN  scheduler_threads' = [scheduler_threads EXCEPT ![l] = "launched"]
    /\ UNCHANGED <<engine_running, countdown_timers, countdown_threads,
                   callback_calls, cancelled, timerFrame>>

\* stop(): self.running = False
EngineStop ==
    /\ engine_running' = FALSE
    /\ UNCHANGED <<scheduler_threads, countdown_timers, countdown_threads,
                   callback_calls, cancelled, timerFrame>>

\* _run_scheduler: self.running = True
LoopBegin(l) ==
    /\ scheduler_threads[l] = "launched"
    /\ engine_running' = TRUE
    /\ scheduler_threads' = [scheduler_threads EXCEPT ![l] = "test"]
    /\ UNCHANGED <<countdown_timers, countdown_threads, callback_calls, cancelled,
                   timerFrame>>

\* _run_scheduler: while self.running, then the work of one round up to the sleep
LoopTest(l) ==
    /\ scheduler_threads[l] = "test"
    /\ scheduler_threads' =
           [scheduler_threads EXCEPT ![l] = IF engine_running THEN "sleep" ELSE "exited"]
    /\ UNCHANGED <<engine_running, countdown_timers, countdown_threads,
                   callback_calls, cancelled, timerFrame>>

\* _run_scheduler: time.sleep(self.check_interval) returns
LoopWake(l) ==
    /\ scheduler_threads[l] = "sleep"
    /\ scheduler_threads' = [scheduler_threads EXCEPT ![l] = "test"]
    /\ UNCHANGED <<engine_running, countdown_timers, countdown_threads,
                   callback_calls, cancelled, timerFrame>>

\* start_countdown_timer(minutes): the timer is entered under the lock and its
\* thread is started with minutes * 60 seconds
start_countdown_timer(t, minutes) ==
    /\ countdown_threads[t].pc = "none"
    /\ \A u \in Timers : u < t => countdown_threads[u].pc # "none"
    /\ countdown_timers' = countdown_timers \cup {t}
    /\ countdown_threads' =
           [countdown_threads EXCEPT ![t] =
                [pc |-> "test", remaining |-> minutes * SecondsPerMinute,
                 total_seconds |-> minutes * SecondsPerMinute]]
    /\ UNCHANGED <<engine_running, scheduler_threads, callback_calls, cancelled,
                   timerFrame>>

\* _run_countdown: while remaining > 0 and self.running
CountdownTest(t) ==
    /\ countdown_threads[t].pc = "test"
    /\ countdown_threads' =
           [countdown_threads EXCEPT ![t].pc =
                IF countdown_threads[t].remaining > 0 /\ engine_running
                THEN "sleep" ELSE "finish"]
    /\ UNCHANGED <<engine_running, scheduler_threads, countdown_timers,
                   callback_calls, cancelled, timerFrame>>

\* _run_countdown: time.sleep(1); remaining -= 1
CountdownTick(t) ==
    /\ countdown_threads[t].pc = "sleep"
    /\ countdown_threads' =
           [countdown_threads EXCEPT ![t].pc = "check",
                                     ![t].remaining = @ - 1]
    /\ UNCHANGED <<engine_running, scheduler_threads, countdown_timers,
                   callback_calls, cancelled, timerFrame>>

\* _run_countdown: under the lock, return if the timer was cancelled
CountdownCheck(t) ==
    /\ countdown_threads[t].pc = "check"
    /\ countdown_threads' =
           [countdown_threads EXCEPT ![t].pc =
                IF t \in countdown_timers THEN "test" ELSE "returned"]
    /\ UNCHANGED <<engine_running, scheduler_threads, countdown_timers,
                   callback_calls, cancelled, timerFrame>>

\* _run_countdown: under the lock, if the timer is still there call
\* trigger_callback and delete the timer; the callback returns or raises
CountdownFinish(t) ==
    /\ countdown_threads[t].pc = "finish"
    /\ countdown_threads' = [countdown_threads EXCEPT ![t].pc = "returned"]
    /\ IF t \in countdown_timers
       THEN /\ callback_calls' = [callback_calls EXCEPT ![t] = @ + 1]
            /\ \/ countdown_timers' = countdown_timers \ {t}
               \/ \* trigger_callback raises: the del is not reached
                  UNCHANGED countdown_timers
       ELSE UNCHANGED <<callback_calls, countdown_timers>>
    /\ UNCHANGED <<engine_running, scheduler_threads, cancelled, timerFrame>>

\* cancel_countdown_timer(timer_id) for a timer that was started
cancel_countdown_timer(t) ==
    /\ countdown_threads[t].pc # "none"
    /\ IF t \in countdown_timers
       THEN /\ countdown_timers' = countdown_timers \ {t}
            /\ cancelled' = [cancelled EXCEPT ![t] = callback_calls[t] = 0]
       ELSE UNCHANGED <<countdown_timers, cancelled>>
    /\ UNCHANGED <<engine_running, scheduler_threads, countdown_threads,
                   callback_calls, timerFrame>>

TimerNext ==
    \/ EngineStart
    \/ EngineStop
    \/ \E l \in Loops : LoopBegin(l)
    \/ \E l \in Loops : LoopTest(l)
    \/ \E l \in Loops : LoopWake(l)
    \/ \E t \in Timers, minutes \in 1..MaxMinutes : start_countdown_timer(t, minutes)
    \/ \E t \in Timers : CountdownTest(t)
    \/ \E t \in Timers : CountdownTick(t)
    \/ \E t \in Timers : CountdownCheck(t)
    \/ \E t \in Timers : CountdownFinish(t)
    \/ \E t \in Timers : cancel_countdown_timer(t)

SpecTimer == TimerInit /\ [][TimerNext]_vars

\* C28: the callback of a countdown timer is invoked only after all of its
\* minutes * 60 one-second ticks have elapsed.
C28_NoEarlyCallback ==
    \A t \in Timers :
        callback_calls[t] > 0 => countdown_threads[t].remaining = 0

\* C29: a timer cancelled before its callback was invoked never invokes it,
\* a timer invokes the callback at most once, and a timer whose callback was
\* invoked is no longer among the active timers.
C29_CancelAndSingleCallback ==
    \A t \in Timers :
        /\ cancelled[t] => callback_calls[t] = 0
        /\ callback_calls[t] <= 1
        /\ callback_calls[t] > 0 => t \notin countdown_timers

\* C30: at most one scheduler thread is alive at any time.
C30_OneSchedulerLoop ==
    Cardinality({ l \in Loops : scheduler_threads[l] \in {"launched", "test", "sleep"} }) <= 1

===========================================================================
